---- MODULE Spec2Model ----
(***************************************************************************)
(* Token migration portal: Merkle-committed, exactly-once claims with a    *)
(* deadline, a pause switch, a per-claim cap and a timelocked root update. *)
(*                                                                         *)
(* The MigrationPortal contract is modelled from the Cairo source embedded *)
(* in TROUBLESHOOTING.md (lines 112-351), the MigrationToken contract from *)
(* unnamed/part_000, the reference trees from contracts/src/test_utils.    *)
(*                                                                         *)
(* Encoding notes                                                          *)
(*  - A felt252 is a tuple: <<n>> is the raw value n, <<"poseidon", xs>>   *)
(*    is the Poseidon digest of the felt sequence xs.  Two digests are     *)
(*    equal iff their inputs are equal (a collision-free hash); digests   *)
(*    are totally ordered by FeltLess.                                     *)
(*  - u256 values are naturals below LimbBase^2; LimbBase stands for 2^128 *)
(*    and MAX_SUPPLY (10^27 in the token) is scaled to stay below it: an   *)
(*    amount with a non-zero high limb is above the cap.                   *)
(*  - A transaction is atomic.  A claim is split at its external call:     *)
(*    Claim runs the guards, the effects and the event, Mint runs the      *)
(*    token's mint and either commits or reverts the whole transaction.    *)
(*    While a mint is in flight the contract at the token address may call *)
(*    claim again (Reenter); the token of the repository never does.       *)
(*  - The entry points of the embedded OpenZeppelin components are         *)
(*    modelled with the portal and the token: two-step ownership           *)
(*    (transfer, accept, renounce), access control (grant, revoke,         *)
(*    renounce) and the ERC20 transfers and approvals.                     *)
(*  - Six specifications: Spec is the portal with its token, its ownership *)
(*    and the token's roles; TokenSpec the token called directly (mint,    *)
(*    roles, transfer, approve, transfer_from); SupplySpec the portal with *)
(*    a token near its cap; TimelockSpec the admin and ownership calls of  *)
(*    the portal with a record of overwritten proposals and of attempted   *)
(*    deployments; ToolingSpec the off-chain script                        *)
(*    scripts/generate_merkle.ts, the frontend lookup and calldata, and    *)
(*    the Cairo reference tree helpers, each run once on an input drawn    *)
(*    from a bounded set; HomeSpec the Home page: wallet connections, the  *)
(*    eligibility lookups in flight, the migration steps, the signature,   *)
(*    the claim button and the settling of the transaction it sends.       *)
(*  - The script hashes with poseidon-lite, the contract with              *)
(*    core::poseidon: the two digests are kept apart.                      *)
(***************************************************************************)
EXTENDS Integers, Sequences, FiniteSets, TLC

\* ------------------------------------------------------------------ bounds
LimbBase == 32768
MaxBlock == 14401
Slack == 1
MaxDepth == 2
MaxEntries == 3
MaxFileClaims == 2
MaxLeaves == 7
MaxPending == 2

\* --------------------------------------------------------------- constants
MAX_PROOF_LENGTH == 32
ROOT_UPDATE_TIMELOCK_BLOCKS == 14400
MAX_SUPPLY == 10000

OWNER == 1
USER1 == 16
USER2 == 32
USER3 == 48
USER4 == 64
PORTAL == 256

ALREADY_CLAIMED == "Portal: already claimed"
CLAIM_PERIOD_ENDED == "Portal: claim period ended"
INVALID_PROOF == "Portal: invalid merkle proof"
PROOF_TOO_LONG == "Portal: proof exceeds max depth"
AMOUNT_ZERO == "Portal: amount must be positive"
TIMELOCK_NOT_READY == "Portal: timelock not expired"
NO_PENDING_ROOT == "Portal: no pending root"
MAX_AMOUNT_EXCEEDED == "Portal: amount exceeds max"
INVALID_ROOT == "Portal: invalid root"
NOT_OWNER == "Caller is not the owner"
PAUSED == "Pausable: paused"
NOT_PAUSED == "Pausable: not paused"
U256_ADD_OVERFLOW == "u256_add Overflow"
MISSING_ROLE == "Caller is missing role"
MINT_AMOUNT_ZERO == "Amount must be positive"
EXCEEDS_MAX_SUPPLY == "Exceeds max supply"
ACCOUNT_ZERO == "Token: account is zero"
RENOUNCE_NOT_SELF == "Can only renounce role for self"
NOT_PENDING_OWNER == "Caller is not the pending owner"
INSUFFICIENT_BALANCE == "ERC20: insufficient balance"
INSUFFICIENT_ALLOWANCE == "ERC20: insufficient allowance"
TRANSFER_TO_ZERO == "ERC20: transfer to 0"
APPROVE_TO_ZERO == "ERC20: approve to 0"
ADMIN_ZERO == "Token: admin is zero"
SESSION_EXPIRED == "Session expired. Please disconnect and reconnect Cartridge."
NO_TRANSACTION_HASH == "No transaction hash returned"
FAILED_TO_CLAIM == "Failed to claim tokens"
OK == "ok"

\* ------------------------------------------------------------------ felts
U256Max == LimbBase * LimbBase - 1

Felt(n) == <<n>>

Poseidon(xs) == <<"poseidon", xs>>

MinOf(S) == CHOOSE i \in S : \A j \in S : i <= j

\* a < b on the u256 images of two felts
RECURSIVE FeltLess(_, _)
FeltLess(a, b) ==
    IF Len(a) = 1 /\ Len(b) = 1 THEN a[1] < b[1]
    ELSE IF Len(a) = 1 THEN TRUE
    ELSE IF Len(b) = 1 THEN FALSE
    ELSE IF a[1] # b[1] THEN a[1] = "poseidon"
    ELSE LET x == a[2]
             y == b[2]
         IN  IF Len(x) # Len(y) THEN Len(x) < Len(y)
             ELSE LET d == {i \in 1..Len(x) : x[i] # y[i]}
                  IN  IF d = {} THEN FALSE
                      ELSE FeltLess(x[MinOf(d)], y[MinOf(d)])

AmountLow(amount) == amount % LimbBase

AmountHigh(amount) == amount \div LimbBase

\* (mutant) a leaf that does not commit to the account
compute_leaf_NoUser(user, amount) ==
    Poseidon(<<Felt(0), Felt(AmountLow(amount)), Felt(AmountHigh(amount))>>)

compute_leaf(user, amount) ==
    Poseidon(<<Felt(user), Felt(AmountLow(amount)), Felt(AmountHigh(amount))>>)

\* (mutant) the pair is hashed in the order given
hash_pair_Unsorted(a, b) == Poseidon(<<a, b>>)

hash_pair(a, b) ==
    IF FeltLess(a, b) THEN Poseidon(<<a, b>>) ELSE Poseidon(<<b, a>>)

\* the loop over the proof elements; each round's digest is computed (next is
\* a digest, never the empty tuple) before the next round starts
RECURSIVE process_proof(_, _)
process_proof(proof, computed) ==
    IF proof = <<>> THEN computed
    ELSE LET next == hash_pair(computed, Head(proof))
         IN  IF next # <<>> THEN process_proof(Tail(proof), next) ELSE next

verify_poseidon(proof, root, leaf) == process_proof(proof, leaf) = root

\* ------------------------------------------------------- reference trees
\* (mutant) the single leaf is paired with itself
single_leaf_root_Paired(user, amount) ==
    hash_pair(compute_leaf(user, amount), compute_leaf(user, amount))

single_leaf_root(user, amount) == compute_leaf(user, amount)

two_leaf_tree(user1, amount1, user2, amount2) ==
    LET leaf1 == compute_leaf(user1, amount1)
        leaf2 == compute_leaf(user2, amount2)
    IN  [root |-> hash_pair(leaf1, leaf2),
         proofs |-> <<(<<leaf2>>), (<<leaf1>>)>>]

four_leaf_tree(users, amounts) ==
    LET leaf0 == compute_leaf(users[1], amounts[1])
        leaf1 == compute_leaf(users[2], amounts[2])
        leaf2 == compute_leaf(users[3], amounts[3])
        leaf3 == compute_leaf(users[4], amounts[4])
        node01 == hash_pair(leaf0, leaf1)
        node23 == hash_pair(leaf2, leaf3)
    IN  [root |-> hash_pair(node01, node23),
         proofs |-> <<(<<leaf1, node23>>), (<<leaf0, node23>>),
                      (<<leaf3, node01>>), (<<leaf2, node01>>)>>]

\* ------------------------------------------- off-chain script (TypeScript)
\* the digest poseidon-lite computes; it is not the digest of core::poseidon
PoseidonLite(xs) == <<"poseidon-lite", xs>>

THROWN == "throw"

poseidonHashMany(values) ==
    IF Len(values) = 2 THEN PoseidonLite(values)
    ELSE IF Len(values) = 3 THEN PoseidonLite(values)
    ELSE <<THROWN, "Unsupported number of inputs">>

\* '0x' + x.toString(16), and the value BigInt reads back from it
ToHex(x) == <<"0x", x>>

FromHex(h) == h[2]

computeLeaf(address, amount) ==
    poseidonHashMany(<<Felt(address), Felt(amount % LimbBase),
                       Felt(amount \div LimbBase)>>)

\* (mutant) the pair is hashed in the order given
hashPair_Unsorted(a, b) == poseidonHashMany(<<a, b>>)

hashPair(a, b) ==
    IF FeltLess(a, b) THEN poseidonHashMany(<<a, b>>)
    ELSE poseidonHashMany(<<b, a>>)

\* (mutant) an unpaired node is paired with zero
right_ZeroPadded(currentLevel, i) ==
    IF i + 1 <= Len(currentLevel) THEN currentLevel[i + 1][1] ELSE Felt(0)

\* the right child of the pair that starts at index i (1-based): the next
\* node, or the left child itself when there is none
right(currentLevel, i) ==
    IF i + 1 <= Len(currentLevel) THEN currentLevel[i + 1][1]
    ELSE currentLevel[i][1]

\* the for loop of buildMerkleTree from index i (1-based): the parents pushed
\* to nextLevel and the proof lists pushed to nextProofs, two per full pair
RECURSIVE ForLoop(_, _)
ForLoop(currentLevel, i) ==
    IF i > Len(currentLevel) THEN [nextLevel |-> <<>>, nextProofs |-> <<>>]
    ELSE LET both == i + 1 <= Len(currentLevel)
             left == currentLevel[i][1]
             parent == hashPair(left, right(currentLevel, i))
             pushed == IF both
                       THEN <<(<<right(currentLevel, i)>> \o Tail(currentLevel[i])),
                              (<<left>> \o Tail(currentLevel[i + 1]))>>
                       ELSE <<(<<left>> \o Tail(currentLevel[i]))>>
             rest == ForLoop(currentLevel, i + 2)
         IN  [nextLevel |-> <<parent>> \o rest.nextLevel,
              nextProofs |-> pushed \o rest.nextProofs]

\* the while loop of buildMerkleTree: node idx of the next level is paired
\* with nextProofs[idx]
RECURSIVE WhileLoop(_)
WhileLoop(currentLevel) ==
    IF Len(currentLevel) <= 1 THEN currentLevel
    ELSE LET pass == ForLoop(currentLevel, 1)
         IN  WhileLoop([idx \in 1..Len(pass.nextLevel) |->
                          <<pass.nextLevel[idx]>> \o pass.nextProofs[idx]])

\* the iterations of the while loop: the level each one starts from and
\* what its for loop pushes
RECURSIVE WhileTrace(_)
WhileTrace(currentLevel) ==
    IF Len(currentLevel) <= 1 THEN <<>>
    ELSE LET pass == ForLoop(currentLevel, 1)
         IN  <<[level |-> currentLevel, pass |-> pass]>>
               \o WhileTrace([idx \in 1..Len(pass.nextLevel) |->
                                <<pass.nextLevel[idx]>> \o pass.nextProofs[idx]])

\* (mutant) an empty list of leaves gives the zero root
buildMerkleTree_ZeroRoot(leaves) ==
    IF Len(leaves) = 0
    THEN [error |-> "", root |-> Felt(0), proofs |-> <<>>]
    ELSE IF Len(leaves) = 1
    THEN [error |-> "", root |-> leaves[1], proofs |-> <<(<<>>)>>]
    ELSE LET currentLevel == WhileLoop([i \in 1..Len(leaves) |-> <<leaves[i]>>])
         IN  [error |-> "",
              root |-> currentLevel[1][1],
              proofs |-> [idx \in 1..(Len(currentLevel[1]) - 1) |-> <<>>]]

buildMerkleTree(leaves) ==
    IF Len(leaves) = 0
    THEN [error |-> "Cannot build tree with 0 leaves", root |-> Felt(0), proofs |-> <<>>]
    ELSE IF Len(leaves) = 1
    THEN [error |-> "", root |-> leaves[1], proofs |-> <<(<<>>)>>]
    ELSE LET currentLevel == WhileLoop([i \in 1..Len(leaves) |-> <<leaves[i]>>])
         IN  [error |-> "",
              root |-> currentLevel[1][1],
              proofs |-> [idx \in 1..(Len(currentLevel[1]) - 1) |-> <<>>]]

generateMerkleTree(claims) ==
    LET leaves == [i \in 1..Len(claims) |->
                     computeLeaf(claims[i].address, claims[i].amount)]
        built == buildMerkleTree(leaves)
    IN  IF Len(leaves) = 1
        THEN [error |-> "",
              root |-> ToHex(leaves[1]),
              claims |-> <<[address |-> claims[1].address,
                            amount |-> claims[1].amount,
                            proof |-> <<>>]>>]
        ELSE IF built.error # ""
        THEN [error |-> built.error, root |-> ToHex(Felt(0)), claims |-> <<>>]
        ELSE [error |-> "",
              root |-> ToHex(built.root),
              claims |-> [index \in 1..Len(claims) |->
                            [address |-> claims[index].address,
                             amount |-> claims[index].amount,
                             proof |-> IF index <= Len(built.proofs)
                                       THEN [k \in 1..Len(built.proofs[index]) |->
                                               ToHex(built.proofs[index][k])]
                                       ELSE <<>>]]]

\* ------------------------------------------------- frontend (TypeScript)
\* a string is the sequence of its characters
UpperChars == <<"A", "B", "C", "D", "E", "F", "G", "H", "I", "J", "K", "L", "M",
                "N", "O", "P", "Q", "R", "S", "T", "U", "V", "W", "X", "Y", "Z">>

LowerChars == <<"a", "b", "c", "d", "e", "f", "g", "h", "i", "j", "k", "l", "m",
                "n", "o", "p", "q", "r", "s", "t", "u", "v", "w", "x", "y", "z">>

toLowerCase(str) ==
    [i \in 1..Len(str) |->
        IF \E k \in 1..26 : UpperChars[k] = str[i]
        THEN LowerChars[CHOOSE k \in 1..26 : UpperChars[k] = str[i]]
        ELSE str[i]]

\* str.replace(pattern, ''): the first occurrence of pattern is removed
replace(str, pattern) ==
    LET at == {i \in 1..(Len(str) - Len(pattern) + 1) :
                  SubSeq(str, i, i + Len(pattern) - 1) = pattern}
    IN  IF at = {} THEN str
        ELSE SubSeq(str, 1, MinOf(at) - 1)
               \o SubSeq(str, MinOf(at) + Len(pattern), Len(str))

\* (mutant) the letter case is kept
normalizeEthAddress_CaseSensitive(address) ==
    IF address = <<>> THEN <<>> ELSE replace(address, <<"0", "x">>)

normalizeEthAddress(address) ==
    IF address = <<>> THEN <<>>
    ELSE replace(toLowerCase(address), <<"0", "x">>)

\* data.claims.find(...): the index of the first claim whose address matches,
\* 0 when there is none
find(claims, normalizedEth) ==
    LET hits == {i \in 1..Len(claims) :
                    normalizeEthAddress(claims[i].address) = normalizedEth}
    IN  IF hits = {} THEN 0 ELSE MinOf(hits)

\* the promise fetchAllocation returns, for a fetch that rejected, answered
\* with a status that is not ok, or answered with the JSON document `data`
fetchAllocation(ethAddress, response) ==
    IF response.kind = "rejects"
    THEN [kind |-> "rejected", error |-> response.error]
    ELSE IF ~response.ok
    THEN [kind |-> "rejected",
          error |-> <<"Failed to fetch merkle tree: ", response.status>>]
    ELSE LET claim == find(response.data.claims, normalizeEthAddress(ethAddress))
         IN  IF claim = 0 THEN [kind |-> "null"]
             ELSE [kind |-> "value",
                   amount |-> response.data.claims[claim].amount,
                   proof |-> response.data.claims[claim].proof]

\* the digits of a number written in base 10 or 16
Digits == <<"0", "1", "2", "3", "4", "5", "6", "7", "8", "9",
            "a", "b", "c", "d", "e", "f">>

\* n.toString(radix)
RECURSIVE toString(_, _)
toString(n, radix) ==
    IF n < radix THEN <<Digits[n + 1]>>
    ELSE toString(n \div radix, radix) \o <<Digits[(n % radix) + 1]>>

\* the value of a string of digits in the given radix
RECURSIVE ParseDigits(_, _)
ParseDigits(str, radix) ==
    IF str = <<>> THEN 0
    ELSE ParseDigits(SubSeq(str, 1, Len(str) - 1), radix) * radix
           + (CHOOSE d \in 0..15 : Digits[d + 1] = str[Len(str)])

\* BigInt(str) of a decimal string or of a hex string that starts with 0x
BigInt(str) ==
    IF Len(str) >= 2 /\ SubSeq(str, 1, 2) = <<"0", "x">>
    THEN ParseDigits(SubSeq(str, 3, Len(str)), 16)
    ELSE ParseDigits(str, 10)

\* handleClaim: the two limbs of the amount as hex strings; LOW_MASK keeps
\* the bits below the limb width
amountLow(amountBigInt) == <<"0", "x">> \o toString(amountBigInt % LimbBase, 16)

\* (mutant) the high limb is not sent
amountHigh_Dropped(amountBigInt) == <<"0", "x">> \o toString(0, 16)

amountHigh(amountBigInt) == <<"0", "x">> \o toString(amountBigInt \div LimbBase, 16)

\* the calldata handleClaim passes to account.execute
calldata(claimAmount, claimProof) ==
    <<amountLow(BigInt(claimAmount)), amountHigh(BigInt(claimAmount)),
      toString(Len(claimProof), 10)>> \o claimProof

\* ------------------------------------------------ Home page (TypeScript)
\* null, and a value that is not null
Null == <<>>

Some(v) == <<v>>

\* the state of the Home component when it mounts: no wallet connected, the
\* initial values of its useState hooks, no lookup in flight
Home ==
    [ethAddress |-> Null, starknetAddress |-> Null,
     isEligible |-> Null, claimAmount |-> Null, claimProof |-> <<>>,
     claiming |-> FALSE, claimError |-> Null, txHash |-> Null,
     loadingAllocation |-> FALSE, inflight |-> <<>>, sent |-> Null,
     migrationStep |-> 1, signature |-> Null, isSigning |-> FALSE]

\* the eligibility effect, run when ethAddress or starknetAddress changed:
\* without an ETH address it clears isEligible and claimAmount, otherwise it
\* sets the loading flag and starts a lookup for the address of this render
useEffect(h) ==
    IF h.ethAddress = Null
    THEN [h EXCEPT !.isEligible = Null, !.claimAmount = Null]
    ELSE [h EXCEPT !.loadingAllocation = TRUE,
                   !.inflight = Append(@, h.ethAddress[1])]

\* the rest of checkEligibility once the promise of fetchAllocation settles
checkEligibility(h, promise) ==
    IF promise.kind = "value"
    THEN [h EXCEPT !.isEligible = Some(TRUE),
                   !.claimAmount = Some(promise.amount),
                   !.claimProof = promise.proof,
                   !.loadingAllocation = FALSE]
    ELSE [h EXCEPT !.isEligible = Some(FALSE), !.loadingAllocation = FALSE]

\* the three effects that move the page through its steps, as one render
\* runs them: to step 2 with an eligible ETH wallet, to step 3 with a
\* Starknet wallet and a signature, to step 4 with a transaction hash
progressThroughSteps(h) ==
    IF h.ethAddress # Null /\ h.isEligible = Some(TRUE) /\ h.migrationStep = 1
    THEN [h EXCEPT !.migrationStep = 2]
    ELSE IF /\ h.starknetAddress # Null
            /\ h.signature \notin {Null, Some("")}
            /\ h.migrationStep = 2
    THEN [h EXCEPT !.migrationStep = 3]
    ELSE IF h.txHash \notin {Null, Some("")} /\ h.migrationStep = 3
    THEN [h EXCEPT !.migrationStep = 4]
    ELSE h

\* a change of the step renders the page again and the effects run again,
\* until the step no longer changes
render(h) == progressThroughSteps(progressThroughSteps(progressThroughSteps(h)))

\* handleSign: without an ETH or a Starknet address it returns at once,
\* otherwise it asks the ETH wallet for a signature of the authorization
handleSign(h) ==
    IF h.ethAddress = Null \/ h.starknetAddress = Null
    THEN h
    ELSE [h EXCEPT !.isSigning = TRUE]

\* the request for a signature settles: useSignMessage holds the signature
\* the wallet returned, or none when the wallet refused
signSettled(h, outcome) ==
    IF outcome.kind = "resolves"
    THEN [h EXCEPT !.signature = Some(outcome.data), !.isSigning = FALSE]
    ELSE [h EXCEPT !.isSigning = FALSE]

\* handleClaim up to its await: it returns at once without a Starknet
\* account, without a claim amount or while a claim is being sent; otherwise
\* it builds the calldata from the amount and proof the page holds and hands
\* the transaction to the connected account (`sent`)
handleClaim(h) ==
    IF h.starknetAddress = Null \/ h.claimAmount \in {Null, Some(<<>>)} \/ h.claiming
    THEN h
    ELSE [h EXCEPT !.claiming = TRUE,
                   !.claimError = Null,
                   !.sent = Some([from |-> h.starknetAddress[1],
                                  calldata |-> calldata(h.claimAmount[1],
                                                        h.claimProof)])]

\* the rest of handleClaim once account.execute settles: a result with a
\* transaction hash is kept; a result without one, and a rejection, end in
\* the catch block, which shows the message of what was thrown
executeSettled(h, outcome) ==
    LET thrown ==
          IF outcome.kind = "rejects"
          THEN IF outcome.e = Null THEN Some([message |-> Some(SESSION_EXPIRED)])
               ELSE outcome.e
          ELSE IF outcome.transaction_hash \in {Null, Some("")}
               THEN Some([message |-> Some(NO_TRANSACTION_HASH)])
               ELSE Null
    IN  IF thrown = Null
        THEN [h EXCEPT !.txHash = outcome.transaction_hash, !.claiming = FALSE]
        ELSE [h EXCEPT !.claimError =
                          IF thrown[1].message \in {Null, Some("")}
                          THEN Some(FAILED_TO_CLAIM)
                          ELSE thrown[1].message,
                       !.claiming = FALSE]

\* ------------------------------------------------------------ input sets
Users == {USER1, USER2, USER3}

AdminCallers == {OWNER, USER1}

\* the two published snapshots: the entries and the tree built over them
Snapshot2 == <<[account |-> USER1, amount |-> 1000],
               [account |-> USER2, amount |-> 2000]>>

Snapshot4 == <<[account |-> USER1, amount |-> 2000],
               [account |-> USER2, amount |-> 1000],
               [account |-> USER3, amount |-> 1000],
               [account |-> USER4, amount |-> 2000]>>

Tree2 == two_leaf_tree(Snapshot2[1].account, Snapshot2[1].amount,
                       Snapshot2[2].account, Snapshot2[2].amount)

Tree4 == four_leaf_tree([i \in 1..4 |-> Snapshot4[i].account],
                        [i \in 1..4 |-> Snapshot4[i].amount])

LongProof == [i \in 1..(MAX_PROOF_LENGTH + 1) |-> Felt(0)]

\* a proof of exactly MAX_PROOF_LENGTH elements
FullProof == [i \in 1..MAX_PROOF_LENGTH |-> Felt(0)]

CtorRoots == {Tree2.root}

RootChoices == {Felt(0), Tree4.root}

DeadlineChoices == {ROOT_UPDATE_TIMELOCK_BLOCKS}

MaxAmountChoices == {2000}

AmountChoices(max) == {0, 1000, 2000, max, max + 1}

ProofChoices ==
    {<<>>, LongProof, FullProof}
      \cup {Tree2.proofs[i] : i \in 1..2}
      \cup {Tree4.proofs[i] : i \in 1..3}

\* arguments given to the view get_claimable: the committed amounts, and the
\* proofs of the first two entries of each tree plus the 33-element proof
ProbeAmounts == {Snapshot2[i].amount : i \in 1..2}

ProbeProofs ==
    {LongProof} \cup {Tree2.proofs[i] : i \in 1..2} \cup {Tree4.proofs[i] : i \in 1..2}

\* the root of a tree of depth MAX_PROOF_LENGTH + 1: the fold of a path of 33
\* siblings from the leaf of (USER1, 1000)
DeepRoot == process_proof(LongProof, compute_leaf(USER1, 1000))

\* roots a portal is deployed with when the view is called on it
DeployedRoots == {Tree2.root, Tree4.root, DeepRoot}

\* snapshots given to the off-chain script: up to MaxEntries entries of
\* distinct accounts; the third amount has a non-zero high limb
ScriptAccounts == {USER1, USER2, USER3, USER4}

ScriptAmounts == {1000, 2000, LimbBase + 5}

ClaimData == [address : ScriptAccounts, amount : ScriptAmounts]

ClaimLists ==
    {claims \in UNION {[1..n -> ClaimData] : n \in 0..MaxEntries} :
        \A i, j \in DOMAIN claims : i # j => claims[i].address # claims[j].address}

\* leaves given to buildMerkleTree: the first n leaves, n up to MaxLeaves, of
\* the snapshot that gives account 16 * k the amount 1000 * k
LeafPool == [k \in 1..MaxLeaves |-> computeLeaf(16 * k, 1000 * k)]

LeafLists == {SubSeq(LeafPool, 1, n) : n \in 0..MaxLeaves}

\* node values given to the pair hashes: raw values, leaves and inner nodes
\* of both hashes
NodeChoices ==
    {Felt(0), Felt(1), Felt(LimbBase)}
      \cup {compute_leaf(USER1, 1000), compute_leaf(USER2, 2000), Tree2.root}
      \cup {computeLeaf(USER1, 1000), computeLeaf(USER2, 2000),
            hashPair(computeLeaf(USER1, 1000), computeLeaf(USER2, 2000))}

\* addresses as wallets and snapshots write them: hex digits in either case,
\* with or without a 0x prefix
AddressPrefixes == {<<>>, <<"0", "x">>, <<"0", "X">>}

AddressDigits == {<<"7", "a">>, <<"7", "A">>, <<"0", "c">>, <<"9", "9">>}

EthAddresses == {p \o d : p \in AddressPrefixes, d \in AddressDigits}

\* the i-th entry of /merkle-tree.json: a decimal amount of i tokens in wei
\* and a proof of i - 1 hex strings
FileAllocation(i) ==
    [amount |-> <<i, "000000000000000000">>,
     proof |-> [k \in 1..(i - 1) |-> <<"0x", k>>]]

FileClaimLists ==
    UNION {{[i \in 1..n |-> [address |-> addresses[i],
                             amount |-> FileAllocation(i).amount,
                             proof |-> FileAllocation(i).proof]] :
               addresses \in [1..n -> EthAddresses]} : n \in 0..MaxFileClaims}

\* what fetch('/merkle-tree.json') does: it rejects, resolves with a status
\* that is not ok, or resolves with a document
Responses ==
    {[kind |-> "rejects", error |-> "Network error"],
     [kind |-> "resolves", ok |-> FALSE, status |-> 404]}
      \cup {[kind |-> "resolves", ok |-> TRUE, status |-> 200,
             data |-> [root |-> "0x63cf", claims |-> claims]] :
               claims \in FileClaimLists}

\* amounts the page holds in claimAmount, as the decimal strings of the
\* published file: small amounts, the limb boundary and the largest u256
UiAmounts == {0, 1, 1000, LimbBase - 1, LimbBase, LimbBase + 5, U256Max}

ClaimAmounts == {toString(a, 10) : a \in UiAmounts}

\* proofs the page holds in claimProof: hex strings of the published file
ClaimProofs ==
    {<<>>,
     <<(<<"0", "x">> \o toString(LimbBase + 1, 16))>>,
     <<(<<"0", "x", "7", "a">>), (<<"0", "x", "1", "f", "0", "0">>)>>}

\* block numbers are sampled at the multiples of the timelock delay and up to
\* Slack blocks after them
BlockPoints ==
    {b \in 0..MaxBlock : b % ROOT_UPDATE_TIMELOCK_BLOCKS <= Slack}

\* ------------------------------------------------------------------ state
VARIABLES
    storage,        \* MigrationPortal Storage
    erc20,          \* MigrationToken state: supply, balances, MINTER_ROLE holders
    block_number,   \* get_block_number()
    events,         \* Claimed events emitted by the portal, in order
    mint_calls,     \* per account, the mint calls the token has executed
    stack,          \* claims whose external mint call is in flight
    saved,          \* state at the start of the transaction in flight
    result,         \* outcome of the most recent call
    last_proposal,  \* the most recent accepted proposal (root, block)
    root_origin,    \* how the active root was installed
    offchain,       \* the last run of a function of the off-chain tooling
    superseded,     \* the pending proposal the last proposal overwrote, as
                    \* recorded by the timelock specification
    home            \* the Home page: wallet addresses, eligibility state and
                    \* the fetchAllocation calls in flight

vars == <<storage, erc20, block_number, events, mint_calls, stack, saved,
          result, last_proposal, root_origin, offchain, superseded, home>>

NoRun == [op |-> "none"]

NoResult ==
    [op |-> "none", caller |-> 0, amount |-> 0, proof |-> <<>>, root |-> Felt(0),
     err |-> OK, depth |-> 0]

\* outcome of claim(amount, proof) called by `caller` at call depth `depth`
ClaimOutcome(caller, amount, proof, err, depth) ==
    [op |-> "claim", caller |-> caller, amount |-> amount, proof |-> proof,
     root |-> Felt(0), err |-> err, depth |-> depth]

\* outcome of an admin call; `root` is the argument of propose_merkle_root
AdminOutcome(op, caller, root, err) ==
    [op |-> op, caller |-> caller, amount |-> 0, proof |-> <<>>, root |-> root,
     err |-> err, depth |-> 1]

\* `by` records whether the proposer was the owner when it proposed
NoProposal == [root |-> Felt(0), block |-> 0, by |-> "none"]

FromConstructor(root) ==
    [kind |-> "constructor", root |-> root, by |-> "none", proposed_at |-> 0,
     executed_at |-> 0]

constructor(owner, token, merkle_root, claim_deadline_block, max_claim_amount) ==
    [owner |-> owner,
     pending_owner |-> 0,
     paused |-> FALSE,
     token |-> token,
     merkle_root |-> merkle_root,
     claimed |-> [u \in Users |-> FALSE],
     claim_deadline_block |-> claim_deadline_block,
     pending_root |-> Felt(0),
     pending_root_block |-> 0,
     total_claimed |-> 0,
     max_claim_amount |-> max_claim_amount]

ConstructorOk(owner, token, merkle_root, claim_deadline_block, max_claim_amount, blk) ==
    /\ owner # 0
    /\ token # 0
    /\ merkle_root # Felt(0)
    /\ claim_deadline_block > blk
    /\ max_claim_amount > 0

\* the first failing assert of the constructor, "" when all pass
ConstructorError(owner, token, merkle_root, claim_deadline_block, max_claim_amount, blk) ==
    IF ~(owner # 0) THEN "Portal: owner is zero"
    ELSE IF ~(token # 0) THEN "Portal: token is zero"
    ELSE IF ~(merkle_root # Felt(0)) THEN "Portal: invalid merkle root"
    ELSE IF ~(claim_deadline_block > blk) THEN "Portal: deadline in past"
    ELSE IF ~(max_claim_amount > 0) THEN "Portal: invalid max amount"
    ELSE ""

TOKEN == 512

\* the roles of the token's access control
DEFAULT_ADMIN_ROLE == "DEFAULT_ADMIN_ROLE"

MINTER_ROLE == "MINTER_ROLE"

Roles == {DEFAULT_ADMIN_ROLE, MINTER_ROLE}

\* the token's constructor refuses the zero address as admin
TokenConstructorError(admin) == IF ~(admin # 0) THEN ADMIN_ZERO ELSE OK

\* the token after its constructor: the admin holds DEFAULT_ADMIN_ROLE, a
\* non-zero minter holds MINTER_ROLE, nothing is minted or approved
token_constructor(admin, minter) ==
    [total_supply |-> 0,
     balances |-> [u \in Users |-> 0],
     allowances |-> [pair \in Users \X Users |-> 0],
     roles |-> [role \in Roles |->
                  IF role = DEFAULT_ADMIN_ROLE THEN {admin}
                  ELSE IF minter # 0 THEN {minter}
                  ELSE {}]]

\* access control: the accounts that hold a role
has_role(t, role, account) == account \in t.roles[role]

_grant_role(t, role, account) ==
    [t EXCEPT !.roles[role] = t.roles[role] \cup {account}]

_revoke_role(t, role, account) ==
    [t EXCEPT !.roles[role] = t.roles[role] \ {account}]

\* the admin role of every role is DEFAULT_ADMIN_ROLE
RoleAdminError(t, caller, role) ==
    IF ~has_role(t, DEFAULT_ADMIN_ROLE, caller) THEN MISSING_ROLE ELSE OK

\* grant_role(role, account) called by `caller`: what it leaves of the token
grant_role(t, caller, role, account) ==
    IF RoleAdminError(t, caller, role) = OK THEN _grant_role(t, role, account) ELSE t

\* the fixture of the portal tests: the token is deployed with the admin as
\* its first minter, the portal is deployed, and the admin grants the portal
\* MINTER_ROLE
Init ==
    /\ block_number = 0
    /\ \E root \in CtorRoots, deadline \in DeadlineChoices, max \in MaxAmountChoices :
          /\ ConstructorOk(OWNER, TOKEN, root, deadline, max, block_number)
          /\ storage = constructor(OWNER, TOKEN, root, deadline, max)
          /\ root_origin = FromConstructor(root)
    /\ TokenConstructorError(OWNER) = OK
    /\ erc20 = grant_role(token_constructor(OWNER, OWNER), OWNER, MINTER_ROLE, PORTAL)
    /\ events = <<>>
    /\ mint_calls = [u \in Users |-> 0]
    /\ stack = <<>>
    /\ saved = <<>>
    /\ result = NoResult
    /\ last_proposal = NoProposal
    /\ offchain = NoRun
    /\ superseded = NoProposal
    /\ home = Home

\* ------------------------------------------------------------------ claim
\* the guards of claim, one per assert
\* (mutant) the pause flag is not consulted
NotPaused_Ignored(s) == TRUE

NotPaused(s) == ~s.paused

\* (mutant) the bound is off by one
ProofLengthOk_Lax(proof) == Len(proof) <= MAX_PROOF_LENGTH + 1

ProofLengthOk(proof) == Len(proof) <= MAX_PROOF_LENGTH

\* (mutant) the already-claimed guard is missing
NotYetClaimed_Skipped(s, caller) == TRUE

\* (mutant) one flag for all accounts: the first claim closes the portal
NotYetClaimed_Global(s, caller) == \A u \in DOMAIN s.claimed : ~s.claimed[u]

NotYetClaimed(s, caller) == ~s.claimed[caller]

\* (mutant) the deadline block itself is excluded
BeforeDeadline_Strict(s, blk) == blk < s.claim_deadline_block

BeforeDeadline(s, blk) == blk <= s.claim_deadline_block

AmountPositive(amount) == amount > 0

\* (mutant) the cap is applied to the running total
WithinCap_Cumulative(s, amount) == s.total_claimed + amount <= s.max_claim_amount

WithinCap(s, amount) == amount <= s.max_claim_amount

\* (mutant) a pending root is used as soon as it is proposed
ProofValid_PendingRoot(s, caller, amount, proof) ==
    verify_poseidon(proof,
                    IF s.pending_root # Felt(0) THEN s.pending_root ELSE s.merkle_root,
                    compute_leaf(caller, amount))

ProofValid(s, caller, amount, proof) ==
    verify_poseidon(proof, s.merkle_root, compute_leaf(caller, amount))

\* total_claimed + amount fits a u256
TotalFits(s, amount) == s.total_claimed + amount <= U256Max

\* (mutant) the already-claimed guard is checked before the proof length
ClaimError_ClaimedFirst(s, blk, caller, amount, proof) ==
    IF ~NotPaused(s) THEN PAUSED
    ELSE IF ~NotYetClaimed(s, caller) THEN ALREADY_CLAIMED
    ELSE IF ~ProofLengthOk(proof) THEN PROOF_TOO_LONG
    ELSE IF ~BeforeDeadline(s, blk) THEN CLAIM_PERIOD_ENDED
    ELSE IF ~AmountPositive(amount) THEN AMOUNT_ZERO
    ELSE IF ~WithinCap(s, amount) THEN MAX_AMOUNT_EXCEEDED
    ELSE IF ~ProofValid(s, caller, amount, proof) THEN INVALID_PROOF
    ELSE IF ~TotalFits(s, amount) THEN U256_ADD_OVERFLOW
    ELSE OK

\* the first failing guard of claim, in source order; OK when all pass
ClaimError(s, blk, caller, amount, proof) ==
    IF ~NotPaused(s) THEN PAUSED
    ELSE IF ~ProofLengthOk(proof) THEN PROOF_TOO_LONG
    ELSE IF ~NotYetClaimed(s, caller) THEN ALREADY_CLAIMED
    ELSE IF ~BeforeDeadline(s, blk) THEN CLAIM_PERIOD_ENDED
    ELSE IF ~AmountPositive(amount) THEN AMOUNT_ZERO
    ELSE IF ~WithinCap(s, amount) THEN MAX_AMOUNT_EXCEEDED
    ELSE IF ~ProofValid(s, caller, amount, proof) THEN INVALID_PROOF
    ELSE IF ~TotalFits(s, amount) THEN U256_ADD_OVERFLOW
    ELSE OK

\* Poseidon evaluations claim performs: none unless the six guards before the
\* proof check pass, then one for the leaf and one per proof element
HashCalls(s, blk, caller, amount, proof) ==
    IF /\ NotPaused(s)
       /\ ProofLengthOk(proof)
       /\ NotYetClaimed(s, caller)
       /\ BeforeDeadline(s, blk)
       /\ AmountPositive(amount)
       /\ WithinCap(s, amount)
    THEN 1 + Len(proof)
    ELSE 0

\* (mutant) the flag is written before the checks and survives a failed check
Rejected_KeepsFlag(s, caller, amount) == [s EXCEPT !.claimed[caller] = TRUE]

\* a failed assert panics: the call returns with the storage it was entered with
Rejected(s, caller, amount) == s

\* (mutant) the claimed flag is not written before the external call
ClaimEffects_NoFlag(s, caller, amount) ==
    [s EXCEPT !.total_claimed = s.total_claimed + amount]

\* (mutant) the total is not updated
ClaimEffects_NoTotal(s, caller, amount) == [s EXCEPT !.claimed[caller] = TRUE]

\* the storage writes of claim that precede the external call
ClaimEffects(s, caller, amount) ==
    [s EXCEPT !.claimed[caller] = TRUE,
              !.total_claimed = s.total_claimed + amount]

\* the Claimed event
Claimed(user, amount, block) ==
    [user |-> user, amount |-> amount, block |-> block]

Snapshot == [storage |-> storage, erc20 |-> erc20, events |-> events,
             mint_calls |-> mint_calls]

\* claim(amount, proof) entered by a transaction of `caller`
Claim(caller, amount, proof) ==
    /\ UNCHANGED <<offchain, superseded, home>>
    /\ stack = <<>>
    /\ result = NoResult
    /\ LET err == ClaimError(storage, block_number, caller, amount, proof) IN
         IF err # OK
         THEN /\ result' = ClaimOutcome(caller, amount, proof, err, 1)
              /\ storage' = Rejected(storage, caller, amount)
              /\ UNCHANGED <<events, stack, saved>>
         ELSE /\ storage' = ClaimEffects(storage, caller, amount)
              /\ events' = Append(events, Claimed(caller, amount, block_number))
              /\ stack' = <<[caller |-> caller, amount |-> amount, proof |-> proof]>>
              /\ saved' = <<Snapshot>>
              /\ UNCHANGED result
    /\ UNCHANGED <<erc20, block_number, mint_calls, last_proposal, root_origin>>

\* claim(amount, proof) called back while a mint is in flight: the portal
\* calls whatever contract is at its token address, and that contract may
\* call the portal back before it returns; the repository's token never does
Reenter(caller, amount, proof) ==
    /\ UNCHANGED <<offchain, superseded, home>>
    /\ stack # <<>>
    /\ result = NoResult
    /\ Len(stack) < MaxDepth
    /\ LET err == ClaimError(storage, block_number, caller, amount, proof) IN
         IF err # OK
         THEN /\ result' = ClaimOutcome(caller, amount, proof, err, Len(stack) + 1)
              /\ storage' = Rejected(storage, caller, amount)
              /\ UNCHANGED <<events, stack>>
         ELSE /\ storage' = ClaimEffects(storage, caller, amount)
              /\ events' = Append(events, Claimed(caller, amount, block_number))
              /\ stack' = Append(stack, [caller |-> caller, amount |-> amount, proof |-> proof])
              /\ UNCHANGED result
    /\ UNCHANGED <<erc20, block_number, mint_calls, saved, last_proposal, root_origin>>

\* outcome of the view get_claimable(user, amount, proof): `ret` is its value
ProbeOutcome(user, amount, proof, ret) ==
    [op |-> "get_claimable", caller |-> user, amount |-> amount, proof |-> proof,
     root |-> Felt(0), err |-> OK, depth |-> 1, ret |-> ret]

\* (mutant) the claimed flag is not consulted
get_claimable_IgnoresClaimed(s, user, amount, proof) ==
    verify_poseidon(proof, s.merkle_root, compute_leaf(user, amount))

\* (mutant) one flag for all accounts: false once any account has claimed
get_claimable_AnyClaimed(s, user, amount, proof) ==
    IF \E u \in DOMAIN s.claimed : s.claimed[u] THEN FALSE
    ELSE verify_poseidon(proof, s.merkle_root, compute_leaf(user, amount))

get_claimable(s, user, amount, proof) ==
    IF s.claimed[user] THEN FALSE
    ELSE verify_poseidon(proof, s.merkle_root, compute_leaf(user, amount))

\* a call of the view between transactions
GetClaimable(user, amount, proof) ==
    /\ UNCHANGED <<offchain, superseded, home>>
    /\ stack = <<>>
    /\ result = NoResult
    /\ result' = ProbeOutcome(user, amount, proof,
                              get_claimable(storage, user, amount, proof))
    /\ UNCHANGED <<storage, erc20, block_number, events, mint_calls, stack, saved,
                   last_proposal, root_origin>>

\* ------------------------------------------------------------------ token
\* (mutant) the supply cap is not checked
MintError_NoCap(t, caller, amount) ==
    IF ~has_role(t, MINTER_ROLE, caller) THEN MISSING_ROLE
    ELSE IF ~(amount > 0) THEN MINT_AMOUNT_ZERO
    ELSE IF t.total_supply + amount > U256Max THEN U256_ADD_OVERFLOW
    ELSE OK

\* the first failing check of mint; current_supply + amount is a u256
\* addition and panics when the sum does not fit
MintError(t, caller, amount) ==
    IF ~has_role(t, MINTER_ROLE, caller) THEN MISSING_ROLE
    ELSE IF ~(amount > 0) THEN MINT_AMOUNT_ZERO
    ELSE IF t.total_supply + amount > U256Max THEN U256_ADD_OVERFLOW
    ELSE IF ~(t.total_supply + amount <= MAX_SUPPLY) THEN EXCEEDS_MAX_SUPPLY
    ELSE OK

\* (mutant) the supply grows but the recipient is not credited
mint_SupplyOnly(t, to, amount) ==
    [t EXCEPT !.total_supply = t.total_supply + amount]

mint(t, to, amount) ==
    [t EXCEPT !.total_supply = t.total_supply + amount,
              !.balances[to] = t.balances[to] + amount]

\* (mutant) the storage writes of the failed claim survive the revert
Reverted_KeepsWrites(s, entered) == s

\* a panic in the external call reverts the transaction: the storage is the
\* one the transaction was entered with
Reverted(s, entered) == entered

\* the token runs the mint of the innermost claim in flight; a failure
\* reverts the whole transaction
Mint ==
    /\ UNCHANGED <<offchain, superseded, home>>
    /\ stack # <<>>
    /\ result = NoResult
    /\ LET f == stack[Len(stack)]
           err == MintError(erc20, PORTAL, f.amount)
       IN  IF err = OK
           THEN /\ erc20' = mint(erc20, f.caller, f.amount)
                /\ mint_calls' = [mint_calls EXCEPT ![f.caller] = @ + 1]
                /\ stack' = SubSeq(stack, 1, Len(stack) - 1)
                /\ saved' = IF Len(stack) = 1 THEN <<>> ELSE saved
                /\ result' = ClaimOutcome(f.caller, f.amount, f.proof, OK, Len(stack))
                /\ UNCHANGED <<storage, events>>
           ELSE /\ storage' = Reverted(storage, saved[1].storage)
                /\ erc20' = saved[1].erc20
                /\ events' = saved[1].events
                /\ mint_calls' = saved[1].mint_calls
                /\ stack' = <<>>
                /\ saved' = <<>>
                /\ result' = ClaimOutcome(stack[1].caller, stack[1].amount, stack[1].proof,
                                            err, 1)
    /\ UNCHANGED <<block_number, last_proposal, root_origin>>

\* outcome of a call of the token's access control
RoleOutcome(op, caller, role, account, err) ==
    [op |-> op, caller |-> caller, amount |-> 0, proof |-> <<>>, root |-> Felt(0),
     err |-> err, depth |-> 1, role |-> role, account |-> account]

\* the first failing check of grant_minter_role
GrantMinterRoleError(t, caller, account) ==
    IF ~has_role(t, DEFAULT_ADMIN_ROLE, caller) THEN MISSING_ROLE
    ELSE IF ~(account # 0) THEN ACCOUNT_ZERO
    ELSE OK

grant_minter_role(t, account) == _grant_role(t, MINTER_ROLE, account)

\* a call of the token that changes nothing but the token
TokenCall(outcome, t) ==
    /\ UNCHANGED <<offchain, superseded, home>>
    /\ stack = <<>>
    /\ result = NoResult
    /\ result' = outcome
    /\ erc20' = t
    /\ UNCHANGED <<storage, block_number, events, mint_calls, stack, saved,
                   last_proposal, root_origin>>

\* grant_minter_role(account) called by `caller`
GrantMinterRole(caller, account) ==
    LET err == GrantMinterRoleError(erc20, caller, account) IN
      TokenCall(RoleOutcome("grant_minter_role", caller, MINTER_ROLE, account, err),
                IF err = OK THEN grant_minter_role(erc20, account) ELSE erc20)

\* grant_role(role, account) called by `caller`
GrantRole(caller, role, account) ==
    LET err == RoleAdminError(erc20, caller, role) IN
      TokenCall(RoleOutcome("grant_role", caller, role, account, err),
                grant_role(erc20, caller, role, account))

\* revoke_role(role, account) called by `caller`
RevokeRole(caller, role, account) ==
    LET err == RoleAdminError(erc20, caller, role) IN
      TokenCall(RoleOutcome("revoke_role", caller, role, account, err),
                IF err = OK THEN _revoke_role(erc20, role, account) ELSE erc20)

RenounceError(caller, account) ==
    IF caller # account THEN RENOUNCE_NOT_SELF ELSE OK

\* renounce_role(role, account) called by `caller`
RenounceRole(caller, role, account) ==
    LET err == RenounceError(caller, account) IN
      TokenCall(RoleOutcome("renounce_role", caller, role, account, err),
                IF err = OK THEN _revoke_role(erc20, role, account) ELSE erc20)

\* outcome of a call of the token's ERC20 interface; `owner` is the account
\* the tokens or the allowance belong to, `to` the recipient or the spender
Erc20Outcome(op, caller, owner, to, amount, err) ==
    [op |-> op, caller |-> caller, amount |-> amount, proof |-> <<>>,
     root |-> Felt(0), err |-> err, depth |-> 1, owner |-> owner, to |-> to]

\* the first failing check of a transfer of `amount` from sender to recipient
TransferError(t, sender, recipient, amount) ==
    IF ~(recipient # 0) THEN TRANSFER_TO_ZERO
    ELSE IF ~(t.balances[sender] >= amount) THEN INSUFFICIENT_BALANCE
    ELSE OK

\* the sender is debited, then the recipient credited
_transfer(t, sender, recipient, amount) ==
    LET debited == [t.balances EXCEPT ![sender] = @ - amount]
    IN  [t EXCEPT !.balances = [debited EXCEPT ![recipient] = @ + amount]]

\* transfer(recipient, amount) called by `caller`
Transfer(caller, recipient, amount) ==
    LET err == TransferError(erc20, caller, recipient, amount) IN
      TokenCall(Erc20Outcome("transfer", caller, caller, recipient, amount, err),
                IF err = OK THEN _transfer(erc20, caller, recipient, amount)
                ELSE erc20)

ApproveError(spender) == IF ~(spender # 0) THEN APPROVE_TO_ZERO ELSE OK

_approve(t, owner, spender, amount) ==
    [t EXCEPT !.allowances[<<owner, spender>>] = amount]

\* approve(spender, amount) called by `caller`
Approve(caller, spender, amount) ==
    LET err == ApproveError(spender) IN
      TokenCall(Erc20Outcome("approve", caller, caller, spender, amount, err),
                IF err = OK THEN _approve(erc20, caller, spender, amount) ELSE erc20)

\* an allowance of the largest u256 is unlimited and is not spent
_spend_allowance(t, owner, spender, amount) ==
    IF t.allowances[<<owner, spender>>] = U256Max THEN t
    ELSE _approve(t, owner, spender, t.allowances[<<owner, spender>>] - amount)

\* the allowance is spent before the transfer is made
TransferFromError(t, spender, sender, recipient, amount) ==
    IF /\ t.allowances[<<sender, spender>>] # U256Max
       /\ ~(t.allowances[<<sender, spender>>] >= amount) THEN INSUFFICIENT_ALLOWANCE
    ELSE TransferError(t, sender, recipient, amount)

\* transfer_from(sender, recipient, amount) called by `caller`
TransferFrom(caller, sender, recipient, amount) ==
    LET err == TransferFromError(erc20, caller, sender, recipient, amount) IN
      TokenCall(Erc20Outcome("transfer_from", caller, sender, recipient, amount, err),
                IF err = OK
                THEN _transfer(_spend_allowance(erc20, sender, caller, amount),
                               sender, recipient, amount)
                ELSE erc20)

\* ------------------------------------------------------------------ admin
\* (mutant) any caller is accepted
OwnerError_Anyone(s, caller) == OK

OwnerError(s, caller) == IF caller # s.owner THEN NOT_OWNER ELSE OK

\* (mutant) the zero root is accepted as a proposal
ProposeError_AcceptsZero(s, caller, new_root) ==
    IF OwnerError(s, caller) # OK THEN NOT_OWNER ELSE OK

ProposeError(s, caller, new_root) ==
    IF OwnerError(s, caller) # OK THEN NOT_OWNER
    ELSE IF ~(new_root # Felt(0)) THEN INVALID_ROOT
    ELSE OK

\* (mutant) a proposal that replaces a pending one inherits its execution block
propose_merkle_root_KeepsDelay(s, blk, new_root) ==
    [s EXCEPT !.pending_root = new_root,
              !.pending_root_block =
                 IF s.pending_root # Felt(0) THEN s.pending_root_block
                 ELSE blk + ROOT_UPDATE_TIMELOCK_BLOCKS]

\* (mutant) the proposal is executable one block early
propose_merkle_root_ShortDelay(s, blk, new_root) ==
    [s EXCEPT !.pending_root = new_root,
              !.pending_root_block = blk + ROOT_UPDATE_TIMELOCK_BLOCKS - 1]

propose_merkle_root(s, blk, new_root) ==
    [s EXCEPT !.pending_root = new_root,
              !.pending_root_block = blk + ROOT_UPDATE_TIMELOCK_BLOCKS]

\* the call propose_merkle_root(new_root) by `caller`
ProposeCall(caller, new_root) ==
    /\ UNCHANGED <<offchain, home>>
    /\ stack = <<>>
    /\ result = NoResult
    /\ LET err == ProposeError(storage, caller, new_root) IN
         /\ result' = AdminOutcome("propose_merkle_root", caller, new_root, err)
         /\ IF err = OK
            THEN /\ storage' = propose_merkle_root(storage, block_number, new_root)
                 /\ last_proposal' = [root |-> new_root, block |-> block_number,
                                   by |-> IF caller = storage.owner THEN "owner"
                                          ELSE "other"]
            ELSE UNCHANGED <<storage, last_proposal>>
    /\ UNCHANGED <<erc20, block_number, events, mint_calls, stack, saved, root_origin>>

ProposeMerkleRoot(caller, new_root) ==
    /\ ProposeCall(caller, new_root)
    /\ UNCHANGED superseded

\* (mutant) the execution block itself is excluded
TimelockExpired_Strict(s, blk) == blk > s.pending_root_block

TimelockExpired(s, blk) == blk >= s.pending_root_block

\* (mutant) a root update cannot be executed while the portal is paused
ExecuteError_WhenNotPaused(s, blk, caller) ==
    IF OwnerError(s, caller) # OK THEN NOT_OWNER
    ELSE IF s.paused THEN PAUSED
    ELSE IF ~(s.pending_root # Felt(0)) THEN NO_PENDING_ROOT
    ELSE IF ~TimelockExpired(s, blk) THEN TIMELOCK_NOT_READY
    ELSE OK

ExecuteError(s, blk, caller) ==
    IF OwnerError(s, caller) # OK THEN NOT_OWNER
    ELSE IF ~(s.pending_root # Felt(0)) THEN NO_PENDING_ROOT
    ELSE IF ~TimelockExpired(s, blk) THEN TIMELOCK_NOT_READY
    ELSE OK

\* (mutant) installing a new root starts a new round of claims
execute_merkle_root_update_ClearsClaims(s) ==
    [s EXCEPT !.merkle_root = s.pending_root,
              !.pending_root = Felt(0),
              !.claimed = [u \in Users |-> FALSE]]

\* (mutant) installing a new root restarts the running total
execute_merkle_root_update_ResetsTotal(s) ==
    [s EXCEPT !.merkle_root = s.pending_root,
              !.pending_root = Felt(0),
              !.total_claimed = 0]

\* (mutant) installing a new root reopens the claim period
execute_merkle_root_update_ExtendsDeadline(s) ==
    [s EXCEPT !.merkle_root = s.pending_root,
              !.pending_root = Felt(0),
              !.claim_deadline_block = s.pending_root_block + ROOT_UPDATE_TIMELOCK_BLOCKS]

execute_merkle_root_update(s) ==
    [s EXCEPT !.merkle_root = s.pending_root,
              !.pending_root = Felt(0)]

ExecuteMerkleRootUpdate(caller) ==
    /\ UNCHANGED <<offchain, superseded, home>>
    /\ stack = <<>>
    /\ result = NoResult
    /\ LET err == ExecuteError(storage, block_number, caller) IN
         /\ result' = AdminOutcome("execute_merkle_root_update", caller, Felt(0), err)
         /\ IF err = OK
            THEN /\ storage' = execute_merkle_root_update(storage)
                 /\ root_origin' = [kind |-> "timelock",
                                    root |-> last_proposal.root,
                                    by |-> last_proposal.by,
                                    proposed_at |-> last_proposal.block,
                                    executed_at |-> block_number]
            ELSE UNCHANGED <<storage, root_origin>>
    /\ UNCHANGED <<erc20, block_number, events, mint_calls, stack, saved, last_proposal>>

PauseError(s, caller) ==
    IF OwnerError(s, caller) # OK THEN NOT_OWNER
    ELSE IF s.paused THEN PAUSED
    ELSE OK

Pause(caller) ==
    /\ UNCHANGED <<offchain, superseded, home>>
    /\ stack = <<>>
    /\ result = NoResult
    /\ LET err == PauseError(storage, caller) IN
         /\ result' = AdminOutcome("pause", caller, Felt(0), err)
         /\ storage' = IF err = OK THEN [storage EXCEPT !.paused = TRUE] ELSE storage
    /\ UNCHANGED <<erc20, block_number, events, mint_calls, stack, saved,
                   last_proposal, root_origin>>

UnpauseError(s, caller) ==
    IF OwnerError(s, caller) # OK THEN NOT_OWNER
    ELSE IF ~s.paused THEN NOT_PAUSED
    ELSE OK

Unpause(caller) ==
    /\ UNCHANGED <<offchain, superseded, home>>
    /\ stack = <<>>
    /\ result = NoResult
    /\ LET err == UnpauseError(storage, caller) IN
         /\ result' = AdminOutcome("unpause", caller, Felt(0), err)
         /\ storage' = IF err = OK THEN [storage EXCEPT !.paused = FALSE] ELSE storage
    /\ UNCHANGED <<erc20, block_number, events, mint_calls, stack, saved,
                   last_proposal, root_origin>>

\* ------------------------------------------------------------- ownership
\* outcome of a call of the portal's two-step ownership
OwnershipOutcome(op, caller, new_owner, err) ==
    [op |-> op, caller |-> caller, amount |-> 0, proof |-> <<>>, root |-> Felt(0),
     err |-> err, depth |-> 1, new_owner |-> new_owner]

\* a call of the portal's ownership interface
OwnershipCall(outcome, s) ==
    /\ UNCHANGED <<offchain, superseded, home>>
    /\ stack = <<>>
    /\ result = NoResult
    /\ result' = outcome
    /\ storage' = s
    /\ UNCHANGED <<erc20, block_number, events, mint_calls, stack, saved,
                   last_proposal, root_origin>>

\* the owner names its successor; the owner stays until the successor accepts
_propose_owner(s, new_owner) == [s EXCEPT !.pending_owner = new_owner]

\* the owner is replaced and the pending owner cleared
_transfer_ownership(s, new_owner) ==
    [s EXCEPT !.pending_owner = 0, !.owner = new_owner]

\* transfer_ownership(new_owner) called by `caller`
TransferOwnership(caller, new_owner) ==
    LET err == OwnerError(storage, caller) IN
      OwnershipCall(OwnershipOutcome("transfer_ownership", caller, new_owner, err),
                    IF err = OK THEN _propose_owner(storage, new_owner) ELSE storage)

AcceptOwnershipError(s, caller) ==
    IF caller # s.pending_owner THEN NOT_PENDING_OWNER ELSE OK

\* accept_ownership() called by `caller`
AcceptOwnership(caller) ==
    LET err == AcceptOwnershipError(storage, caller) IN
      OwnershipCall(OwnershipOutcome("accept_ownership", caller,
                                     storage.pending_owner, err),
                    IF err = OK
                    THEN _transfer_ownership(storage, storage.pending_owner)
                    ELSE storage)

\* renounce_ownership() called by `caller`: the portal is left without owner
RenounceOwnership(caller) ==
    LET err == OwnerError(storage, caller) IN
      OwnershipCall(OwnershipOutcome("renounce_ownership", caller, 0, err),
                    IF err = OK THEN _transfer_ownership(storage, 0) ELSE storage)

\* ------------------------------------------------------------ environment
AdvanceBlock(b) ==
    /\ UNCHANGED <<offchain, superseded, home>>
    /\ stack = <<>>
    /\ result = NoResult
    /\ b > block_number
    /\ block_number' = b
    /\ UNCHANGED <<storage, erc20, events, mint_calls, stack, saved, result,
                   last_proposal, root_origin>>

\* the outcome of the last call has been delivered to its caller
EndCall ==
    /\ UNCHANGED <<offchain, superseded, home>>
    /\ result # NoResult
    /\ result' = NoResult
    /\ UNCHANGED <<storage, erc20, block_number, events, mint_calls, stack, saved,
                   last_proposal, root_origin>>

\* callers of transfer_ownership: the deployer and an outsider
OwnershipCallers == {OWNER, USER2}

\* accounts given to grant_minter_role: the zero address and the portal
GrantedAccounts == {0, PORTAL}

Next ==
    \/ \E caller \in Users, amount \in AmountChoices(storage.max_claim_amount),
          proof \in ProofChoices : Claim(caller, amount, proof)
    \/ \E caller \in Users, amount \in AmountChoices(storage.max_claim_amount),
          proof \in ProofChoices : Reenter(caller, amount, proof)
    \/ \E user \in Users, amount \in ProbeAmounts, proof \in ProbeProofs :
          GetClaimable(user, amount, proof)
    \/ Mint
    \/ \E caller \in AdminCallers, account \in GrantedAccounts :
          GrantMinterRole(caller, account)
    \/ \E caller \in AdminCallers : GrantRole(caller, MINTER_ROLE, PORTAL)
    \/ \E caller \in AdminCallers : RevokeRole(caller, MINTER_ROLE, PORTAL)
    \/ \E caller \in {PORTAL, USER1} : RenounceRole(caller, MINTER_ROLE, PORTAL)
    \/ \E caller \in AdminCallers, new_root \in RootChoices :
          ProposeMerkleRoot(caller, new_root)
    \/ \E caller \in AdminCallers : ExecuteMerkleRootUpdate(caller)
    \/ \E caller \in AdminCallers : Pause(caller)
    \/ \E caller \in AdminCallers : Unpause(caller)
    \/ \E caller \in OwnershipCallers : TransferOwnership(caller, USER1)
    \/ \E caller \in AdminCallers : AcceptOwnership(caller)
    \/ \E caller \in AdminCallers : RenounceOwnership(caller)
    \/ \E b \in BlockPoints : AdvanceBlock(b)
    \/ EndCall

Spec == Init /\ [][Next]_vars

\* a portal deployed at block 0 with `root` as its root and `max` as its cap
PortalWithRoot(root, max) ==
    constructor(OWNER, TOKEN, root, ROOT_UPDATE_TIMELOCK_BLOCKS, max)

\* ------------------------------------------------------ off-chain tooling
\* each run of the tooling is a process of its own, started from scratch
OnChainVars == <<storage, erc20, block_number, events, mint_calls, stack, saved,
                 result, last_proposal, root_origin, superseded>>

\* the script is run on a snapshot
GenerateMerkleTree(claims) ==
    /\ offchain = NoRun
    /\ offchain' = [op |-> "generateMerkleTree", claims |-> claims,
                    output |-> generateMerkleTree(claims)]
    /\ UNCHANGED <<OnChainVars, home>>

\* two nodes are combined, in both orders, by the script and by the Cairo
\* reference
HashPair(a, b) ==
    /\ offchain = NoRun
    /\ offchain' = [op |-> "hashPair", a |-> a, b |-> b,
                    ts |-> hashPair(a, b), ts_swapped |-> hashPair(b, a),
                    cairo |-> hash_pair(a, b), cairo_swapped |-> hash_pair(b, a)]
    /\ UNCHANGED <<OnChainVars, home>>

\* the Cairo reference root of a one-entry tree
SingleLeafRoot(user, amount) ==
    /\ offchain = NoRun
    /\ offchain' = [op |-> "single_leaf_root", user |-> user, amount |-> amount,
                    root |-> single_leaf_root(user, amount)]
    /\ UNCHANGED <<OnChainVars, home>>

\* the frontend looks an address up in the published file
FetchAllocation(ethAddress, response) ==
    /\ offchain = NoRun
    /\ offchain' = [op |-> "fetchAllocation", ethAddress |-> ethAddress,
                    response |-> response,
                    promise |-> fetchAllocation(ethAddress, response)]
    /\ UNCHANGED <<OnChainVars, home>>

\* the tree builder is run on a list of leaves
BuildMerkleTree(leaves) ==
    /\ offchain = NoRun
    /\ offchain' = [op |-> "buildMerkleTree", leaves |-> leaves,
                    output |-> buildMerkleTree(leaves),
                    iterations |-> WhileTrace([i \in 1..Len(leaves) |-> <<leaves[i]>>])]
    /\ UNCHANGED <<OnChainVars, home>>

\* a portal is deployed with `root` and, before any claim, the view
\* get_claimable and claim are called for (user, amount, proof)
ProbeDeployed(root, user, amount, proof) ==
    /\ offchain = NoRun
    /\ ConstructorOk(OWNER, TOKEN, root, ROOT_UPDATE_TIMELOCK_BLOCKS, 2000, 0)
    /\ LET s == PortalWithRoot(root, 2000) IN
         offchain' = [op |-> "get_claimable", root |-> root, user |-> user,
                      amount |-> amount, proof |-> proof,
                      ret |-> get_claimable(s, user, amount, proof),
                      claim |-> ClaimError(s, 0, user, amount, proof)]
    /\ UNCHANGED <<OnChainVars, home>>

\* the page builds the calldata of a claim
HandleClaim(claimAmount, claimProof) ==
    /\ offchain = NoRun
    /\ claimAmount # <<>>
    /\ offchain' = [op |-> "handleClaim", claimAmount |-> claimAmount,
                    claimProof |-> claimProof,
                    calldata |-> calldata(claimAmount, claimProof)]
    /\ UNCHANGED <<OnChainVars, home>>

\* snapshots committed both by the script and by the Cairo reference trees
SnapshotChoices == {Snapshot2, Snapshot4, <<Snapshot2[2], Snapshot2[1]>>}

\* the Cairo reference tree over a snapshot of two or of four entries
reference_tree(snapshot) ==
    IF Len(snapshot) = 2
    THEN two_leaf_tree(snapshot[1].account, snapshot[1].amount,
                       snapshot[2].account, snapshot[2].amount)
    ELSE four_leaf_tree([i \in 1..4 |-> snapshot[i].account],
                        [i \in 1..4 |-> snapshot[i].amount])

\* a snapshot is committed by the script and by the reference tree helper,
\* and on a portal deployed with the script's root the first entry is claimed
\* with the proof of the reference tree
CommitSnapshot(snapshot) ==
    /\ offchain = NoRun
    /\ LET script == generateMerkleTree([i \in 1..Len(snapshot) |->
                                          [address |-> snapshot[i].account,
                                           amount |-> snapshot[i].amount]])
           cairo == reference_tree(snapshot)
       IN  offchain' = [op |-> "commit", snapshot |-> snapshot,
                        script |-> script, cairo |-> cairo,
                        claim |-> ClaimError(PortalWithRoot(FromHex(script.root), 2000),
                                             0, snapshot[1].account,
                                             snapshot[1].amount, cairo.proofs[1])]
    /\ UNCHANGED <<OnChainVars, home>>

\* a run starts from scratch: nothing has run before it
ToolingNext ==
    \/ /\ offchain = NoRun
       /\ \E claimAmount \in ClaimAmounts, claimProof \in ClaimProofs :
             HandleClaim(claimAmount, claimProof)
    \/ /\ offchain = NoRun
       /\ \E snapshot \in SnapshotChoices : CommitSnapshot(snapshot)
    \/ /\ offchain = NoRun
       /\ \E root \in DeployedRoots, user \in Users, amount \in ProbeAmounts,
             proof \in ProbeProofs \cup {<<>>, FullProof} :
             ProbeDeployed(root, user, amount, proof)
    \/ /\ offchain = NoRun
       /\ \E claims \in ClaimLists : GenerateMerkleTree(claims)
    \/ /\ offchain = NoRun
       /\ \E leaves \in LeafLists : BuildMerkleTree(leaves)
    \/ /\ offchain = NoRun
       /\ \E ethAddress \in EthAddresses, response \in Responses :
             FetchAllocation(ethAddress, response)
    \/ /\ offchain = NoRun
       /\ \E a \in NodeChoices, b \in NodeChoices : HashPair(a, b)
    \/ /\ offchain = NoRun
       /\ \E user \in Users, amount \in ScriptAmounts :
             SingleLeafRoot(user, amount)

ToolingSpec == Init /\ [][ToolingNext]_vars

\* ------------------------------------------------------- token on its own
\* callers of the token's mint: the admin, the portal and an outsider
MintCallers == {OWNER, PORTAL, USER1}

\* amounts given to mint: zero, two parts of the cap, the cap, the cap plus
\* one, an amount with a high limb and the largest u256
MintAmounts == {0, 4000, 6000, MAX_SUPPLY, MAX_SUPPLY + 1, LimbBase + 5, U256Max}

MintOutcome(caller, to, amount, err) ==
    [op |-> "mint", caller |-> caller, amount |-> amount, proof |-> <<>>,
     root |-> Felt(0), err |-> err, depth |-> 1, to |-> to]

\* mint(to, amount) called on the token by `caller`
TokenMint(caller, to, amount) ==
    /\ stack = <<>>
    /\ result = NoResult
    /\ LET err == MintError(erc20, caller, amount) IN
         /\ result' = MintOutcome(caller, to, amount, err)
         /\ erc20' = IF err = OK THEN mint(erc20, to, amount) ELSE erc20
    /\ UNCHANGED <<storage, block_number, events, mint_calls, stack, saved,
                   last_proposal, root_origin, offchain, superseded, home>>

\* callers of the token's access control: the admin, the portal, an outsider
RoleCallers == {OWNER, PORTAL, USER1}

\* (role, account) pairs given to grant_role, revoke_role and renounce_role
RoleChanges ==
    {<<MINTER_ROLE, OWNER>>, <<MINTER_ROLE, PORTAL>>, <<DEFAULT_ADMIN_ROLE, USER1>>}

\* holders of the token, the recipients and spender of their transfers, and
\* the amounts they move and approve
Holders == {USER1, USER2}

Recipients == {0, USER1, USER2}

Spenders == {0, USER2}

TransferAmounts == {4000, 6000}

AllowanceAmounts == {4000, U256Max}

TokenNext ==
    \/ \E caller \in MintCallers, to \in Holders, amount \in MintAmounts :
          TokenMint(caller, to, amount)
    \/ \E caller \in RoleCallers, account \in GrantedAccounts :
          GrantMinterRole(caller, account)
    \/ \E caller \in RoleCallers, change \in RoleChanges :
          GrantRole(caller, change[1], change[2])
    \/ \E caller \in RoleCallers, change \in RoleChanges :
          RevokeRole(caller, change[1], change[2])
    \/ \E caller \in RoleCallers, change \in RoleChanges :
          RenounceRole(caller, change[1], change[2])
    \/ \E caller \in Holders, recipient \in Recipients, amount \in TransferAmounts :
          Transfer(caller, recipient, amount)
    \/ \E spender \in Spenders, amount \in AllowanceAmounts :
          Approve(USER1, spender, amount)
    \/ \E recipient \in Recipients, amount \in TransferAmounts :
          TransferFrom(USER2, USER1, recipient, amount)
    \/ EndCall

TokenSpec == Init /\ [][TokenNext]_vars

\* ----------------------------------------------- root timelock on its own
\* roots given to propose_merkle_root: zero and two trees
TimelockRoots == {Felt(0), Tree4.root, single_leaf_root(USER3, 1000)}

\* propose_merkle_root(new_root) by `caller`, with the pending proposal it
\* overwrites (if the slot is taken) kept on record
ProposeOverPending(caller, new_root) ==
    /\ ProposeCall(caller, new_root)
    /\ superseded' = IF ProposeError(storage, caller, new_root) # OK THEN superseded
                     ELSE IF storage.pending_root # Felt(0) THEN last_proposal
                     ELSE NoProposal

\* arguments given to the constructor when a deployment is attempted: a zero
\* or a real root, a deadline in the past or in the future, a zero or a
\* positive cap
DeployRoots == {Felt(0), Tree2.root}

DeployDeadlines == {0, ROOT_UPDATE_TIMELOCK_BLOCKS}

DeployMaxAmounts == {0, 2000}

\* a deployment of another portal is attempted at the current block
DeployAttempt(merkle_root, claim_deadline_block, max_claim_amount) ==
    /\ offchain = NoRun
    /\ offchain' = [op |-> "constructor", merkle_root |-> merkle_root,
                    claim_deadline_block |-> claim_deadline_block,
                    max_claim_amount |-> max_claim_amount,
                    block |-> block_number,
                    error |-> ConstructorError(OWNER, TOKEN, merkle_root,
                                               claim_deadline_block,
                                               max_claim_amount, block_number)]
    /\ UNCHANGED <<OnChainVars, home>>

TimelockNext ==
    \/ \E caller \in AdminCallers, new_root \in TimelockRoots :
          ProposeOverPending(caller, new_root)
    \/ \E merkle_root \in DeployRoots, claim_deadline_block \in DeployDeadlines,
          max_claim_amount \in DeployMaxAmounts :
          DeployAttempt(merkle_root, claim_deadline_block, max_claim_amount)
    \/ \E caller \in AdminCallers : ExecuteMerkleRootUpdate(caller)
    \/ \E caller \in AdminCallers : Pause(caller)
    \/ \E caller \in AdminCallers : Unpause(caller)
    \/ \E caller \in OwnershipCallers : TransferOwnership(caller, USER1)
    \/ \E caller \in AdminCallers : AcceptOwnership(caller)
    \/ \E caller \in AdminCallers : RenounceOwnership(caller)
    \/ \E b \in BlockPoints : AdvanceBlock(b)
    \/ EndCall

TimelockSpec == Init /\ [][TimelockNext]_vars

\* ------------------------------------------- portal and a token near its cap
\* the token's other minter mints all but 2500 of the cap to an account
\* outside the snapshot
PremintAmounts == {MAX_SUPPLY - 2500}

SupplyNext ==
    \/ \E caller \in Users, amount \in AmountChoices(storage.max_claim_amount),
          proof \in ProofChoices : Claim(caller, amount, proof)
    \/ \E caller \in Users, amount \in AmountChoices(storage.max_claim_amount),
          proof \in ProofChoices : Reenter(caller, amount, proof)
    \/ Mint
    \/ \E caller \in AdminCallers, account \in GrantedAccounts :
          GrantMinterRole(caller, account)
    \/ \E caller \in AdminCallers : RevokeRole(caller, MINTER_ROLE, PORTAL)
    \/ \E amount \in PremintAmounts : TokenMint(OWNER, USER3, amount)
    \/ EndCall

SupplySpec == Init /\ [][SupplyNext]_vars

\* ------------------------------------------------------- the Home page
\* the snapshot the script is run on: one L1 address and its amount
HomeSnapshot == <<[address |-> <<"0", "x", "7", "a">>, amount |-> toString(1000, 10)]>>

\* what the script commits for the snapshot
Artifact ==
    generateMerkleTree([i \in DOMAIN HomeSnapshot |->
                          [address |-> BigInt(HomeSnapshot[i].address),
                           amount |-> BigInt(HomeSnapshot[i].amount)]])

\* the published file the page fetches: the root and, for every entry of the
\* snapshot, its address, amount and proof
PublishedFile ==
    [root |-> Artifact.root,
     claims |-> [i \in DOMAIN HomeSnapshot |->
                   [address |-> HomeSnapshot[i].address,
                    amount |-> HomeSnapshot[i].amount,
                    proof |-> Artifact.claims[i].proof]]]

\* what a fetch of the file does: it rejects, or resolves with the file
FileResponses ==
    {[kind |-> "rejects", error |-> "Network error"],
     [kind |-> "resolves", ok |-> TRUE, status |-> 200, data |-> PublishedFile]}

\* addresses the ETH wallet reports: the listed one in another letter case
\* and two that are not listed
ConnectedEthAddresses ==
    {<<"0", "x", "7", "A">>, <<"0", "x", "0", "c">>, <<"0", "x", "9", "9">>}

\* the ETH wallet connects or switches to another account
ConnectEth(address) ==
    /\ home.ethAddress # Some(address)
    /\ Len(home.inflight) < MaxPending
    /\ home' = render(useEffect([home EXCEPT !.ethAddress = Some(address)]))
    /\ UNCHANGED <<OnChainVars, offchain>>

\* the ETH wallet disconnects
DisconnectEth ==
    /\ home.ethAddress # Null
    /\ home' = render(useEffect([home EXCEPT !.ethAddress = Null]))
    /\ UNCHANGED <<OnChainVars, offchain>>

\* the Starknet wallet connects (by the connect button or by the auto-connect
\* of the provider) or switches: the effect runs again
ConnectStarknet(address) ==
    /\ home.starknetAddress # Some(address)
    /\ home.ethAddress # Null => Len(home.inflight) < MaxPending
    /\ home' = render(useEffect([home EXCEPT !.starknetAddress = Some(address)]))
    /\ UNCHANGED <<OnChainVars, offchain>>

\* the i-th lookup in flight settles: lookups settle in any order
Settle(i, response) ==
    /\ i \in DOMAIN home.inflight
    /\ home' = render(checkEligibility(
                  [home EXCEPT !.inflight = SubSeq(@, 1, i - 1)
                                              \o SubSeq(@, i + 1, Len(@))],
                  fetchAllocation(home.inflight[i], response)))
    /\ UNCHANGED <<OnChainVars, offchain>>

\* the sign button is clicked: it is on the page while a Starknet wallet is
\* connected and there is no signature, and is disabled while one is asked for
ClickSign ==
    /\ home.starknetAddress # Null
    /\ home.signature \in {Null, Some("")}
    /\ ~home.isSigning
    /\ home' = render(handleSign(home))
    /\ UNCHANGED <<OnChainVars, offchain>>

\* what the ETH wallet does with the request: it signs or refuses
SignOutcomes ==
    {[kind |-> "resolves", data |-> "0xsignature"], [kind |-> "rejects"]}

\* the request for a signature settles
SignSettles(outcome) ==
    /\ home.isSigning
    /\ home' = render(signSettled(home, outcome))
    /\ UNCHANGED <<OnChainVars, offchain>>

\* the claim button is clicked: it is on the page while there is no
\* transaction hash, and is disabled before step 3 and while a claim is sent
ClickClaim ==
    /\ home.txHash \in {Null, Some("")}
    /\ ~(home.migrationStep < 3 \/ home.claiming)
    /\ home' = render(handleClaim(home))
    /\ UNCHANGED <<OnChainVars, offchain>>

\* what account.execute does with a transaction: it resolves with a
\* transaction hash, with an empty one or with none, or it throws
ExecuteOutcomes ==
    {[kind |-> "resolves", transaction_hash |-> Some("0x1")],
     [kind |-> "resolves", transaction_hash |-> Some("")],
     [kind |-> "resolves", transaction_hash |-> Null],
     [kind |-> "rejects", e |-> Null],
     [kind |-> "rejects", e |-> Some([message |-> Some("User rejected")])],
     [kind |-> "rejects", e |-> Some([message |-> Null])]}

\* the call of account.execute in flight settles
ExecuteSettles(outcome) ==
    /\ home.claiming
    /\ home' = render(executeSettled(home, outcome))
    /\ UNCHANGED <<OnChainVars, offchain>>

\* the Starknet accounts a user connects
StarknetAddresses == {USER1, USER2}

\* the claim a transaction of the page makes on the portal deployed with the
\* root of the published file: claim(amount, proof) called by the account
\* that sent it, with the u256 and the span read from the calldata
PortalAnswer(tx) ==
    ClaimError(PortalWithRoot(FromHex(PublishedFile.root), 2000), 0, tx.from,
               BigInt(tx.calldata[1]) + BigInt(tx.calldata[2]) * LimbBase,
               [k \in 1..BigInt(tx.calldata[3]) |-> FromHex(tx.calldata[k + 3])])

HomeNext ==
    \/ \E address \in ConnectedEthAddresses : ConnectEth(address)
    \/ DisconnectEth
    \/ \E address \in StarknetAddresses : ConnectStarknet(address)
    \/ \E i \in 1..MaxPending, response \in FileResponses : Settle(i, response)
    \/ ClickSign
    \/ \E outcome \in SignOutcomes : SignSettles(outcome)
    \/ ClickClaim
    \/ \E outcome \in ExecuteOutcomes : ExecuteSettles(outcome)

HomeSpec == Init /\ [][HomeNext]_vars

\* =================================================================
\* Properties
\* =================================================================
EventsOf(u) == {i \in DOMAIN events : events[i].user = u}

IsClaim == result.op = "claim"

\* the claim that just returned failed, on an account that was already claimed
\* when it was entered (a failed claim leaves the flags as they were)
FailedOnClaimed == IsClaim /\ result.err # OK /\ storage.claimed[result.caller]

\* C1 (as stated): every claim for an already-claimed account fails with
\* 'Portal: already claimed', regardless of the amount or proof supplied.
C1_AlwaysAlreadyClaimed == FailedOnClaimed => result.err = ALREADY_CLAIMED

\* C1 (amended): for every account a claim succeeds at most once (one Claimed
\* event, one mint, and only with the flag set afterwards); every later claim
\* for that account fails whatever the amount and proof: with the paused
\* error while the portal is paused, with 'proof exceeds max depth' when the
\* proof has more than MAX_PROOF_LENGTH elements, and with 'already claimed'
\* otherwise.
C1_ExactlyOnce ==
    /\ \A u \in Users :
          /\ Cardinality(EventsOf(u)) <= 1
          /\ mint_calls[u] <= 1
          /\ storage.claimed[u] <=> EventsOf(u) # {}
    /\ (IsClaim /\ result.err = OK) => storage.claimed[result.caller]
    /\ FailedOnClaimed =>
          result.err = IF storage.paused THEN PAUSED
                       ELSE IF Len(result.proof) > MAX_PROOF_LENGTH THEN PROOF_TOO_LONG
                       ELSE ALREADY_CLAIMED

\* an account that claimed repeats its valid claim and is refused
C1_Witness ==
    /\ IsClaim
    /\ result.depth = 1
    /\ result.err = ALREADY_CLAIMED
    /\ mint_calls[result.caller] = 1
    /\ verify_poseidon(result.proof, storage.merkle_root,
                       compute_leaf(result.caller, result.amount))

\* what the artifact published for a root lists: entries and their proofs
Published(root) ==
    IF root = Tree2.root THEN [entries |-> Snapshot2, proofs |-> Tree2.proofs]
    ELSE IF root = Tree4.root THEN [entries |-> Snapshot4, proofs |-> Tree4.proofs]
    ELSE [entries |-> <<>>, proofs |-> <<>>]

Committed(root) ==
    {<<Published(root).entries[i].account, Published(root).entries[i].amount>> :
        i \in DOMAIN Published(root).entries}

\* (caller, amount) is an entry of the tree under root and proof is its proof
Eligible(root, caller, amount, proof) ==
    \E i \in DOMAIN Published(root).entries :
        /\ Published(root).entries[i] = [account |-> caller, amount |-> amount]
        /\ Published(root).proofs[i] = proof

\* the guards of claim other than the proof check pass for request r
OtherGuardsPass(s, blk, r) ==
    /\ ~s.paused
    /\ Len(r.proof) <= MAX_PROOF_LENGTH
    /\ ~s.claimed[r.caller]
    /\ blk <= s.claim_deadline_block
    /\ r.amount > 0
    /\ r.amount <= s.max_claim_amount

\* a step in which a claim returns to its caller
ClaimReturns == result = NoResult /\ result'.op = "claim"

NothingChanges ==
    UNCHANGED <<storage, erc20, block_number, events, mint_calls, stack, saved,
                last_proposal, root_origin>>

\* C2: a claim succeeds only if (caller, amount) is an entry of the tree under
\* the active root and the proof is that entry's proof; with the other guards
\* passing, every other request (a caller outside the set, a committed caller
\* with another amount, a caller with another account's proof) fails with
\* 'invalid merkle proof' and changes nothing.
C2_NoForgedEligibility ==
    [][ClaimReturns =>
          LET r == result'
              eligible == Eligible(storage.merkle_root, r.caller, r.amount, r.proof)
          IN  /\ r.err = OK => eligible
              /\ (~eligible /\ OtherGuardsPass(storage, block_number, r)) =>
                    (r.err = INVALID_PROOF /\ NothingChanges)]_vars

\* the four proofs of the four-account tree verify, and so do the two of the
\* two-account tree
FixtureProofsVerify ==
    /\ \A i \in 1..4 :
          verify_poseidon(Tree4.proofs[i], Tree4.root,
                          compute_leaf(Snapshot4[i].account, Snapshot4[i].amount))
    /\ \A i \in 1..2 :
          verify_poseidon(Tree2.proofs[i], Tree2.root,
                          compute_leaf(Snapshot2[i].account, Snapshot2[i].amount))

\* a committed account claims its own amount with another account's proof and
\* is refused
C2_Witness ==
    /\ IsClaim
    /\ result.err = INVALID_PROOF
    /\ <<result.caller, result.amount>> \in Committed(storage.merkle_root)
    /\ \E u \in Users \ {result.caller}, a \in {1000, 2000} :
          Eligible(storage.merkle_root, u, a, result.proof)
    /\ FixtureProofsVerify

RECURSIVE SumAmounts(_)
SumAmounts(seq) == IF seq = <<>> THEN 0 ELSE Head(seq).amount + SumAmounts(Tail(seq))

\* C3: while a mint is in flight the claimed flag of its account and the total
\* are already written; a claim re-entered for an account whose mint is in
\* flight fails ('already claimed', or 'proof exceeds max depth' for a proof
\* longer than MAX_PROOF_LENGTH); the token executes at most one mint per account.
C3_ChecksEffectsInteractions ==
    /\ \A u \in Users : mint_calls[u] <= 1
    /\ \A i \in DOMAIN stack :
          /\ storage.claimed[stack[i].caller]
          /\ mint_calls[stack[i].caller] = 0
          /\ \E j \in DOMAIN events :
                /\ events[j].user = stack[i].caller
                /\ events[j].amount = stack[i].amount
    /\ storage.total_claimed = SumAmounts(events)
    /\ (IsClaim /\ result.depth > 1
          /\ \E i \in DOMAIN stack : stack[i].caller = result.caller) =>
          result.err = IF Len(result.proof) > MAX_PROOF_LENGTH THEN PROOF_TOO_LONG
                       ELSE ALREADY_CLAIMED

\* the token calls back claim for the account it is minting to, with that
\* account's valid request, and is refused
C3_Witness ==
    /\ IsClaim
    /\ result.depth = 2
    /\ result.err = ALREADY_CLAIMED
    /\ stack # <<>>
    /\ stack[1].caller = result.caller
    /\ stack[1].amount = result.amount
    /\ stack[1].proof = result.proof

GuardErrors ==
    {PAUSED, PROOF_TOO_LONG, ALREADY_CLAIMED, CLAIM_PERIOD_ENDED, AMOUNT_ZERO,
     MAX_AMOUNT_EXCEEDED, INVALID_PROOF}

\* C4: a claim that fails one of its guards changes nothing: flags, total,
\* active root, pending update, pause flag, token supply and balances, and the
\* event log are as before.
C4_GuardFailureChangesNothing ==
    [][(ClaimReturns /\ result'.err \in GuardErrors) => NothingChanges]_vars

\* a claim is refused in a state with earlier claims and a pending root update
C4_Witness ==
    /\ IsClaim
    /\ result.err = INVALID_PROOF
    /\ events # <<>>
    /\ storage.pending_root # Felt(0)
    /\ storage.total_claimed > 0

MintErrors == {MISSING_ROLE, MINT_AMOUNT_ZERO, EXCEEDS_MAX_SUPPLY}

\* request r passes every guard of claim in state s at block blk
ValidRequest(s, blk, r) ==
    /\ OtherGuardsPass(s, blk, r)
    /\ Eligible(s.merkle_root, r.caller, r.amount, r.proof)

\* a step in which a claim passes its guards and reaches its external call
ClaimAccepted == Len(stack') = Len(stack) + 1

\* C5: a request that satisfies every guard (not paused, block <= deadline,
\* caller unclaimed, proof of at most 32 elements that is the entry's proof
\* under the active root, 0 < amount <= cap) is never refused by the portal;
\* when it is accepted the caller's flag turns true and the total grows by
\* exactly the amount; it then fails only if the token's mint reverts (no
\* minter role, zero amount, supply cap), and otherwise returns success with
\* the flag still set.
C5_ValidClaimSucceeds ==
    [][/\ (ClaimReturns /\ result'.err \notin (MintErrors \cup {OK})) =>
             ~ValidRequest(storage, block_number, result')
       /\ ClaimAccepted =>
             LET f == stack'[Len(stack')]
             IN  /\ ~storage.claimed[f.caller]
                 /\ storage' = [storage EXCEPT
                                  !.claimed[f.caller] = TRUE,
                                  !.total_claimed = storage.total_claimed + f.amount]
       /\ (ClaimReturns /\ result'.err = OK) =>
             /\ storage' = storage
             /\ storage.claimed[result'.caller]
       /\ (ClaimReturns /\ result'.err \in MintErrors) =>
             LET f == stack[Len(stack)]
             IN  \/ result'.err = MISSING_ROLE /\ PORTAL \notin erc20.roles[MINTER_ROLE]
                 \/ result'.err = MINT_AMOUNT_ZERO /\ f.amount = 0
                 \/ result'.err = EXCEEDS_MAX_SUPPLY
                      /\ erc20.total_supply + f.amount > MAX_SUPPLY]_vars

\* the second account of the two-account tree claims after the first: success
C5_Witness ==
    /\ IsClaim
    /\ result.err = OK
    /\ result.depth = 1
    /\ result.caller = USER2
    /\ storage.claimed[USER1] /\ storage.claimed[USER2]
    /\ storage.total_claimed = 3000

\* total_claimed of the last committed state
CommittedTotal ==
    IF stack = <<>> THEN storage.total_claimed ELSE saved[1].storage.total_claimed

\* C6: total_claimed equals the sum of the amounts claimed by the accounts whose
\* flag is set (one Claimed event each); it is 0 at deployment and the total
\* of the committed state never decreases.
C6_TotalIsSumOfClaims ==
    /\ [](/\ storage.total_claimed = SumAmounts(events)
          /\ \A u \in Users :
                /\ storage.claimed[u] <=> EventsOf(u) # {}
                /\ Cardinality(EventsOf(u)) <= 1
          /\ (\A u \in Users : ~storage.claimed[u]) => storage.total_claimed = 0)
    /\ [][CommittedTotal' >= CommittedTotal]_vars

\* both accounts of the two-account tree have claimed: 1000 + 2000
C6_Witness ==
    /\ stack = <<>>
    /\ storage.claimed[USER1] /\ storage.claimed[USER2] /\ ~storage.claimed[USER3]
    /\ storage.total_claimed = 3000
    /\ storage.merkle_root = Tree2.root

\* C7: the active root is the constructor root or a root the owner proposed at
\* least ROOT_UPDATE_TIMELOCK_BLOCKS blocks before the execute call that
\* installed it; the root changes only in a successful
\* execute_merkle_root_update by the owner.
C7_RootOnlyThroughTimelock ==
    /\ [](/\ storage.merkle_root = root_origin.root
          /\ root_origin.kind = "constructor" => root_origin.root \in CtorRoots
          /\ root_origin.kind = "timelock" =>
                /\ root_origin.by = "owner"
                /\ root_origin.executed_at
                     >= root_origin.proposed_at + ROOT_UPDATE_TIMELOCK_BLOCKS)
    /\ [][storage'.merkle_root # storage.merkle_root =>
             /\ result'.op = "execute_merkle_root_update"
             /\ result'.err = OK
             /\ result'.caller = storage.owner]_vars

\* a proposed root is installed after claims were made under the old one
C7_Witness ==
    /\ root_origin.kind = "timelock"
    /\ storage.merkle_root = Tree4.root
    /\ storage.total_claimed > 0
    /\ result.op = "execute_merkle_root_update"
    /\ result.err = OK

\* a proposal has been accepted and not executed since
ProposalOutstanding ==
    /\ last_proposal.by # "none"
    /\ ~(root_origin.kind = "timelock"
           /\ root_origin.proposed_at = last_proposal.block)

ExecuteReturns ==
    result = NoResult /\ result'.op = "execute_merkle_root_update"

\* C8: for the owner, execute before proposal block + 14400 fails with
\* 'timelock not expired' and changes nothing; at or after that block it
\* succeeds, the active root becomes the proposed root and the pending slot is
\* cleared; with no proposal outstanding (none made, or the last one already
\* executed) it fails with 'no pending root'.
C8_TimelockBoundary ==
    /\ [](storage.pending_root =
             IF ProposalOutstanding THEN last_proposal.root ELSE Felt(0))
    /\ [][(ExecuteReturns /\ result'.caller = storage.owner) =>
             LET due == last_proposal.block + ROOT_UPDATE_TIMELOCK_BLOCKS
             IN  /\ (ProposalOutstanding /\ block_number < due) =>
                       (result'.err = TIMELOCK_NOT_READY /\ NothingChanges)
                 /\ (ProposalOutstanding /\ block_number >= due) =>
                       /\ result'.err = OK
                       /\ storage' = [storage EXCEPT
                                        !.merkle_root = last_proposal.root,
                                        !.pending_root = Felt(0)]
                 /\ ~ProposalOutstanding =>
                       (result'.err = NO_PENDING_ROOT /\ NothingChanges)]_vars

\* the update was executed exactly at its execution block and a second execute
\* is refused
C8_Witness ==
    /\ result.op = "execute_merkle_root_update"
    /\ result.caller = OWNER
    /\ result.err = NO_PENDING_ROOT
    /\ root_origin.kind = "timelock"
    /\ root_origin.executed_at = root_origin.proposed_at + ROOT_UPDATE_TIMELOCK_BLOCKS
    /\ storage.merkle_root = Tree4.root

\* the guards that precede the deadline check pass for request r
GuardsBeforeDeadlinePass(s, r) ==
    /\ ~s.paused
    /\ Len(r.proof) <= MAX_PROOF_LENGTH
    /\ ~s.claimed[r.caller]

\* C9: no claim succeeds at a block after the deadline, whatever the pause
\* flag and the active root are, and with the earlier guards passing it fails
\* with 'claim period ended'; at block == deadline a request that satisfies
\* the other guards is not refused, and the deadline guard never fires at a
\* block <= deadline; the deadline itself never changes.
C9_DeadlineEnforced ==
    /\ [](\A i \in DOMAIN events : events[i].block <= storage.claim_deadline_block)
    /\ [][/\ storage'.claim_deadline_block = storage.claim_deadline_block
          /\ ClaimReturns =>
               LET r == result'
                   late == block_number > storage.claim_deadline_block
               IN  /\ late => r.err # OK
                   /\ (late /\ GuardsBeforeDeadlinePass(storage, r)) =>
                         r.err = CLAIM_PERIOD_ENDED
                   /\ r.err = CLAIM_PERIOD_ENDED => late
                   /\ (block_number = storage.claim_deadline_block
                         /\ ValidRequest(storage, block_number, r)) =>
                         r.err \in (MintErrors \cup {OK})]_vars

\* one account claimed at the deadline block; at deadline + 1, after a root
\* rotation, an entry of the new root is refused
C9_Witness ==
    /\ IsClaim
    /\ result.err = CLAIM_PERIOD_ENDED
    /\ block_number = storage.claim_deadline_block + 1
    /\ root_origin.kind = "timelock"
    /\ Eligible(storage.merkle_root, result.caller, result.amount, result.proof)
    /\ \E i \in DOMAIN events : events[i].block = storage.claim_deadline_block

\* the guards that precede the cap check pass for request r
GuardsBeforeCapPass(s, blk, r) ==
    /\ GuardsBeforeDeadlinePass(s, r)
    /\ blk <= s.claim_deadline_block
    /\ r.amount > 0

\* C10: a claim of more than max_claim_amount never succeeds and, with the
\* earlier guards passing, fails with 'amount exceeds max' (max + 1 included);
\* a request of exactly max_claim_amount that satisfies the other guards is
\* not refused; the cap guard fires only when the amount of the call itself
\* exceeds the cap, whatever total has been claimed before.
C10_CapBoundary ==
    [][ClaimReturns =>
          LET r == result'
              over == r.amount > storage.max_claim_amount
          IN  /\ over => r.err # OK
              /\ (over /\ GuardsBeforeCapPass(storage, block_number, r)) =>
                    r.err = MAX_AMOUNT_EXCEEDED
              /\ r.err = MAX_AMOUNT_EXCEEDED => over
              /\ (r.amount = storage.max_claim_amount
                    /\ ValidRequest(storage, block_number, r)) =>
                    r.err \in (MintErrors \cup {OK})]_vars

\* after claims of 1000 and of exactly the cap (total above the cap), a claim
\* of cap + 1 is refused
C10_Witness ==
    /\ IsClaim
    /\ result.err = MAX_AMOUNT_EXCEEDED
    /\ result.amount = storage.max_claim_amount + 1
    /\ storage.total_claimed > storage.max_claim_amount
    /\ \E i \in DOMAIN events : events[i].amount = storage.max_claim_amount

\* C11: on an unpaused portal a claim with a proof of 33 elements fails with
\* 'proof exceeds max depth', whatever the caller, the amount and the state
\* of the other guards, changes nothing and evaluates no hash; the guard
\* fires only for proofs of more than 32 elements, so a proof of exactly 32
\* elements is never refused by it.
C11_ProofLengthBound ==
    [][ClaimReturns =>
          LET r == result' IN
          /\ (Len(r.proof) = MAX_PROOF_LENGTH + 1 /\ ~storage.paused) =>
                /\ r.err = PROOF_TOO_LONG
                /\ NothingChanges
                /\ HashCalls(storage, block_number, r.caller, r.amount, r.proof) = 0
          /\ Len(r.proof) > MAX_PROOF_LENGTH => r.err # OK
          /\ r.err = PROOF_TOO_LONG => Len(r.proof) > MAX_PROOF_LENGTH
          /\ (Len(r.proof) = MAX_PROOF_LENGTH /\ OtherGuardsPass(storage, block_number, r)) =>
                /\ r.err = INVALID_PROOF
                /\ HashCalls(storage, block_number, r.caller, r.amount, r.proof)
                      = MAX_PROOF_LENGTH + 1]_vars

\* an account that has not claimed is refused for a 33-element proof
\* although its amount is the committed one
C11_Witness ==
    /\ IsClaim
    /\ Len(result.proof) = MAX_PROOF_LENGTH + 1
    /\ result.err = PROOF_TOO_LONG
    /\ ~storage.claimed[result.caller]
    /\ <<result.caller, result.amount>> \in Committed(storage.merkle_root)

\* the requests the model submits to claim
Requests ==
    {[caller |-> c, amount |-> a, proof |-> p] :
        c \in Users, a \in AmountChoices(storage.max_claim_amount), p \in ProofChoices}

PauseReturns == result = NoResult /\ result'.op = "pause" /\ result'.err = OK

UnpauseReturns == result = NoResult /\ result'.op = "unpause" /\ result'.err = OK

\* C12: while the pause flag is set every claim fails with 'Pausable: paused',
\* whatever the caller, amount and proof, and changes nothing; no claim is
\* accepted while the flag is set; right after a successful pause every
\* request is refused with the paused error, and right after a successful
\* unpause every request that satisfies the other guards passes them again.
C12_PauseBlocksClaims ==
    [][/\ (ClaimReturns /\ storage.paused) =>
             (result'.err = PAUSED /\ NothingChanges)
       /\ ClaimAccepted => ~storage.paused
       /\ PauseReturns =>
             /\ storage'.paused
             /\ \A r \in Requests :
                   ClaimError(storage', block_number', r.caller, r.amount, r.proof)
                      = PAUSED
       /\ UnpauseReturns =>
             /\ ~storage'.paused
             /\ \A r \in Requests :
                   (/\ OtherGuardsPass(storage', block_number', r)
                    /\ Eligible(storage'.merkle_root, r.caller, r.amount, r.proof))
                      => ClaimError(storage', block_number', r.caller, r.amount, r.proof)
                            = OK]_vars

\* after another account has claimed, the portal is paused and an entry's own
\* request, valid in every other respect, is refused
C12_Witness ==
    /\ IsClaim
    /\ result.err = PAUSED
    /\ storage.paused
    /\ storage.total_claimed > 0
    /\ ~storage.claimed[result.caller]
    /\ block_number <= storage.claim_deadline_block
    /\ Eligible(storage.merkle_root, result.caller, result.amount, result.proof)

AdminOps == {"propose_merkle_root", "execute_merkle_root_update", "pause", "unpause"}

AdminReturns == result = NoResult /\ result'.op \in AdminOps

\* C13: propose_merkle_root, execute_merkle_root_update, pause and unpause
\* succeed only for the owner; for any other caller they fail with the
\* ownership error and leave the active root, the pending update, the pause
\* flag and everything else unchanged.
C13_AdminOnlyOwner ==
    [][AdminReturns =>
          /\ result'.err = OK => result'.caller = storage.owner
          /\ result'.caller # storage.owner =>
                /\ result'.err = NOT_OWNER
                /\ storage'.merkle_root = storage.merkle_root
                /\ storage'.pending_root = storage.pending_root
                /\ storage'.pending_root_block = storage.pending_root_block
                /\ storage'.paused = storage.paused
                /\ NothingChanges]_vars

\* after ownership was handed over, the deployer is refused an execute that
\* the new owner could perform: a root is pending and its timelock has expired
C13_Witness ==
    /\ result.op = "execute_merkle_root_update"
    /\ storage.owner = USER1
    /\ result.caller = OWNER
    /\ result.err = NOT_OWNER
    /\ storage.pending_root = Tree4.root
    /\ block_number >= storage.pending_root_block
    /\ storage.merkle_root = Tree2.root

\* storage of the last committed state: a transaction in flight is not
\* visible to other transactions and vanishes if it reverts
CommittedStorage == IF stack = <<>> THEN storage ELSE saved[1].storage

\* is_claimed(user) as a transaction reads it
is_claimed(user) == CommittedStorage.claimed[user]

\* C14: every account is unclaimed at deployment, and once is_claimed(account)
\* is true in a committed state it is true in every later state, whatever
\* claims, pauses, proposals, root updates and block advances follow; the
\* flag turns true only for the caller of a claim that was accepted.
C14_ClaimedIsForever ==
    /\ \A u \in Users : ~is_claimed(u)
    /\ [][\A u \in Users :
             /\ is_claimed(u) => is_claimed(u)'
             /\ (~storage.claimed[u] /\ storage'.claimed[u]) =>
                   (ClaimAccepted /\ stack'[Len(stack')].caller = u)]_vars

\* an account is still claimed after the root it claimed under was replaced
\* by a root that commits it again, and the portal was paused since
C14_Witness ==
    /\ stack = <<>>
    /\ storage.claimed[USER1]
    /\ storage.merkle_root = Tree4.root
    /\ events[1].user = USER1
    /\ events[1].block < root_origin.executed_at
    /\ storage.paused

ProbeReturns == result = NoResult /\ result'.op = "get_claimable"

\* C15: get_claimable changes no state; for an account whose flag is set it
\* returns false whatever amount and proof are given; for an unclaimed
\* account it returns the result of verifying (account, amount, proof)
\* against the active root, which is true exactly for an entry of the tree
\* under that root presented with its own proof.
C15_GetClaimableIsReadOnlyProbe ==
    [][ProbeReturns =>
          LET r == result' IN
          /\ NothingChanges
          /\ storage.claimed[r.caller] => r.ret = FALSE
          /\ ~storage.claimed[r.caller] =>
                /\ r.ret = verify_poseidon(r.proof, storage.merkle_root,
                                           compute_leaf(r.caller, r.amount))
                /\ r.ret <=> Eligible(storage.merkle_root, r.caller, r.amount, r.proof)]_vars

\* the probe answers false for an account that has claimed, asked with the
\* very amount and proof its claim succeeded with
C15_Witness ==
    /\ result.op = "get_claimable"
    /\ result.ret = FALSE
    /\ storage.claimed[result.caller]
    /\ Eligible(storage.merkle_root, result.caller, result.amount, result.proof)
    /\ \E i \in DOMAIN events :
          events[i].user = result.caller /\ events[i].amount = result.amount

\* the fold of a proof from a leaf to a candidate root, leaf-to-root order,
\* by the script's sorted-pair hash
RECURSIVE foldProof(_, _)
foldProof(proof, candidate) ==
    IF proof = <<>> THEN candidate
    ELSE foldProof(Tail(proof), hashPair(candidate, Head(proof)))

\* verify(root, account, amount, proof) on the values the script prints
verify(root, account, amount, proof) ==
    foldProof([k \in 1..Len(proof) |-> FromHex(proof[k])],
              computeLeaf(account, amount)) = FromHex(root)

ScriptRan == offchain.op = "generateMerkleTree"

\* C16: for every non-empty snapshot given to generateMerkleTree and every
\* entry e of it, the script reports e with a proof that folds, by sorted-pair
\* hashing from leaf(e.account, e.amount), to the root the script outputs.
C16_BuilderRoundTrip ==
    (ScriptRan /\ Len(offchain.claims) >= 1) =>
        /\ offchain.output.error = ""
        /\ Len(offchain.output.claims) = Len(offchain.claims)
        /\ \A i \in DOMAIN offchain.claims :
              LET e == offchain.output.claims[i] IN
              /\ e.address = offchain.claims[i].address
              /\ e.amount = offchain.claims[i].amount
              /\ verify(offchain.output.root, e.address, e.amount, e.proof)

\* the script run on the two-account snapshot: the root is the pair hash of
\* the two leaves and both proofs are empty
C16_Witness ==
    /\ ScriptRan
    /\ offchain.claims = <<[address |-> USER1, amount |-> 1000],
                           [address |-> USER2, amount |-> 2000]>>
    /\ offchain.output.root =
          ToHex(hashPair(computeLeaf(USER1, 1000), computeLeaf(USER2, 2000)))
    /\ \A i \in 1..2 : offchain.output.claims[i].proof = <<>>

\* C17: the script run on exactly one entry outputs the entry's leaf as the
\* root and the empty proof for the entry, and the empty proof verifies
\* against that root; the Cairo reference root of a one-entry tree is the
\* entry's leaf, the empty proof verifies against it, and a portal deployed
\* with that root accepts the account's claim with the empty proof.
C17_SingleLeafIdentity ==
    /\ (ScriptRan /\ Len(offchain.claims) = 1) =>
          LET e == offchain.claims[1]
              out == offchain.output
          IN  /\ out.error = ""
              /\ out.root = ToHex(computeLeaf(e.address, e.amount))
              /\ Len(out.claims) = 1
              /\ out.claims[1] = [address |-> e.address, amount |-> e.amount,
                                  proof |-> <<>>]
              /\ verify(out.root, e.address, e.amount, <<>>)
    /\ offchain.op = "single_leaf_root" =>
          LET leaf == compute_leaf(offchain.user, offchain.amount)
              s == PortalWithRoot(offchain.root, offchain.amount)
          IN  /\ offchain.root = leaf
              /\ verify_poseidon(<<>>, offchain.root, leaf)
              /\ ClaimError(s, 0, offchain.user, offchain.amount, <<>>) = OK
              /\ get_claimable(s, offchain.user, offchain.amount, <<>>)

\* the script was run on the one-entry snapshot (USER1, 1000)
C17_Witness ==
    /\ ScriptRan
    /\ offchain.claims = <<[address |-> USER1, amount |-> 1000]>>
    /\ offchain.output.root = ToHex(computeLeaf(USER1, 1000))
    /\ offchain.output.claims[1].proof = <<>>

PairCombined == offchain.op = "hashPair"

\* C18: combining two nodes gives the same parent whichever is presented
\* first, for the script's hashPair and for the Cairo reference hash_pair,
\* equal nodes included; the parent is the digest of the smaller node followed
\* by the larger.
C18_SortedPairCommutes ==
    PairCombined =>
        LET lo == IF FeltLess(offchain.a, offchain.b) THEN offchain.a ELSE offchain.b
            hi == IF FeltLess(offchain.a, offchain.b) THEN offchain.b ELSE offchain.a
        IN  /\ offchain.ts = offchain.ts_swapped
            /\ offchain.cairo = offchain.cairo_swapped
            /\ offchain.ts = PoseidonLite(<<lo, hi>>)
            /\ offchain.cairo = Poseidon(<<lo, hi>>)

\* two distinct leaves are combined with the larger presented first
C18_Witness ==
    /\ PairCombined
    /\ offchain.a = computeLeaf(USER2, 2000)
    /\ offchain.b = computeLeaf(USER1, 1000)
    /\ FeltLess(offchain.b, offchain.a)
    /\ offchain.ts = PoseidonLite(<<offchain.b, offchain.a>>)

\* the amount the two-account snapshot commits for account u (0 if none)
Entitlement2(u) ==
    IF \E i \in 1..2 : Snapshot2[i].account = u
    THEN Snapshot2[CHOOSE i \in 1..2 : Snapshot2[i].account = u].amount
    ELSE 0

\* the two-account root given to the constructor is still the active root
UnderTree2 == root_origin.kind = "constructor" /\ storage.merkle_root = Tree2.root

\* C19: in the two-account tree (1000 and 2000) each account's proof is the
\* other account's leaf and verifies against the shared root; under that root
\* an account's own request is accepted whether or not the other account has
\* claimed; between transactions the total, the flags and the balances depend
\* only on which accounts have claimed, not on the order, and with both
\* claimed total_claimed is 3000.
C19_TwoAccountsIndependent ==
    /\ [](/\ Tree2.proofs = <<(<<compute_leaf(USER2, 2000)>>),
                              (<<compute_leaf(USER1, 1000)>>)>>
          /\ \A i \in 1..2 :
                verify_poseidon(Tree2.proofs[i], Tree2.root,
                                compute_leaf(Snapshot2[i].account, Snapshot2[i].amount))
          /\ (UnderTree2 /\ stack = <<>>) =>
                /\ storage.total_claimed
                     = (IF storage.claimed[USER1] THEN 1000 ELSE 0)
                         + (IF storage.claimed[USER2] THEN 2000 ELSE 0)
                /\ \A u \in Users :
                      /\ storage.claimed[u] => Entitlement2(u) > 0
                      /\ erc20.balances[u]
                           = (IF storage.claimed[u] THEN Entitlement2(u) ELSE 0)
                /\ (storage.claimed[USER1] /\ storage.claimed[USER2]) =>
                      (storage.total_claimed = 3000 /\ erc20.total_supply = 3000))
    /\ [][(ClaimReturns /\ UnderTree2) =>
             \A i \in 1..2 :
                (/\ result'.caller = Snapshot2[i].account
                 /\ result'.amount = Snapshot2[i].amount
                 /\ result'.proof = Tree2.proofs[i]
                 /\ OtherGuardsPass(storage, block_number, result'))
                   => result'.err \in (MintErrors \cup {OK})]_vars

\* the second account claimed first, then the first account: total 3000
C19_Witness ==
    /\ UnderTree2
    /\ stack = <<>>
    /\ Len(events) = 2
    /\ events[1].user = USER2 /\ events[1].amount = 2000
    /\ events[2].user = USER1 /\ events[2].amount = 1000
    /\ storage.total_claimed = 3000
    /\ erc20.balances[USER1] = 1000 /\ erc20.balances[USER2] = 2000

MintReturns == result = NoResult /\ result'.op = "mint"

RECURSIVE SumBalances(_, _)
SumBalances(balances, accounts) ==
    IF accounts = {} THEN 0
    ELSE LET u == CHOOSE x \in accounts : TRUE
         IN  balances[u] + SumBalances(balances, accounts \ {u})

\* the original statement of C20: every mint by a minter of a positive amount
\* that would take the supply above MAX_SUPPLY fails with 'Exceeds max
\* supply'
C20_ExceedingMintSaysExceeds ==
    [][MintReturns =>
          LET r == result' IN
          (/\ r.caller \in erc20.roles[MINTER_ROLE]
           /\ r.amount > 0
           /\ erc20.total_supply + r.amount > MAX_SUPPLY)
             => (r.err = EXCEEDS_MAX_SUPPLY /\ erc20' = erc20)]_vars

\* C20: total_supply never exceeds MAX_SUPPLY and is the sum of the balances;
\* a mint by a caller without MINTER_ROLE fails; by a minter, amount 0 fails
\* with 'Amount must be positive', an amount that would take the supply above
\* MAX_SUPPLY fails with 'Exceeds max supply' when supply + amount fits a
\* u256 and with the u256 addition overflow otherwise; every failure leaves
\* supply and balances unchanged, and every other mint succeeds and adds the
\* amount to the supply and to the recipient's balance.
C20_SupplyCap ==
    /\ [](/\ erc20.total_supply <= MAX_SUPPLY
          /\ erc20.total_supply = SumBalances(erc20.balances, Users))
    /\ [][MintReturns =>
             LET r == result'
                 minter == r.caller \in erc20.roles[MINTER_ROLE]
                 sum == erc20.total_supply + r.amount
             IN  /\ r.err # OK => erc20' = erc20
                 /\ ~minter => r.err = MISSING_ROLE
                 /\ (minter /\ r.amount = 0) => r.err = MINT_AMOUNT_ZERO
                 /\ (minter /\ r.amount > 0 /\ sum > MAX_SUPPLY /\ sum <= U256Max) =>
                       r.err = EXCEEDS_MAX_SUPPLY
                 /\ (minter /\ r.amount > 0 /\ sum > U256Max) =>
                       r.err = U256_ADD_OVERFLOW
                 /\ (minter /\ r.amount > 0 /\ sum <= MAX_SUPPLY) =>
                       /\ r.err = OK
                       /\ erc20'.total_supply = sum
                       /\ erc20'.balances =
                            [erc20.balances EXCEPT ![r.to] = @ + r.amount]]_vars

\* with 8000 minted to two accounts, a mint of 4000 by a minter is
\* refused for the cap
C20_Witness ==
    /\ result.op = "mint"
    /\ result.err = EXCEEDS_MAX_SUPPLY
    /\ result.caller \in erc20.roles[MINTER_ROLE]
    /\ erc20.total_supply = 8000
    /\ result.amount = 4000
    /\ erc20.balances[USER1] = 4000 /\ erc20.balances[USER2] = 4000

\* an address without its leading 0x (in either case), if it has one
StripLeading0x(str) ==
    IF Len(str) >= 2 /\ str[1] = "0" /\ str[2] \in {"x", "X"}
    THEN SubSeq(str, 3, Len(str))
    ELSE str

\* two addresses are equal ignoring letter case and a leading 0x
SameAddress(a, b) ==
    toLowerCase(StripLeading0x(a)) = toLowerCase(StripLeading0x(b))

Fetched == offchain.op = "fetchAllocation"

\* C21: fetchAllocation(ethAddress, _) resolves with the amount and proof of
\* the (first) claim of /merkle-tree.json whose address equals ethAddress
\* ignoring letter case and a leading 0x; it resolves with null when no claim
\* matches; when the fetch rejects or the response is not ok it rejects with
\* an error and never resolves with null.
C21_FetchAllocation ==
    Fetched =>
        LET r == offchain.response
            p == offchain.promise
        IN  /\ r.kind = "rejects" => (p.kind = "rejected" /\ p.error = r.error)
            /\ (r.kind = "resolves" /\ ~r.ok) => p.kind = "rejected"
            /\ (r.kind = "resolves" /\ r.ok) =>
                  LET claims == r.data.claims
                      matches == {i \in DOMAIN claims :
                                     SameAddress(claims[i].address, offchain.ethAddress)}
                  IN  /\ matches = {} => p.kind = "null"
                      /\ matches # {} =>
                            p = [kind |-> "value",
                                 amount |-> claims[MinOf(matches)].amount,
                                 proof |-> claims[MinOf(matches)].proof]

\* an upper-case address without prefix is looked up in a file that lists it
\* second, in lower case with the 0x prefix: its amount and proof are returned
C21_Witness ==
    /\ Fetched
    /\ offchain.ethAddress = <<"7", "A">>
    /\ offchain.response.kind = "resolves"
    /\ offchain.response.ok
    /\ Len(offchain.response.data.claims) = 2
    /\ offchain.response.data.claims[1].address = <<"0", "x", "9", "9">>
    /\ offchain.response.data.claims[2].address = <<"0", "x", "7", "a">>
    /\ offchain.promise.kind = "value"
    /\ offchain.promise.amount = offchain.response.data.claims[2].amount
    /\ offchain.promise.proof = <<(<<"0x", 1>>)>>

\* the errors of the seven guards of claim, in the order of the guards
GuardOrder ==
    <<PAUSED, PROOF_TOO_LONG, ALREADY_CLAIMED, CLAIM_PERIOD_ENDED, AMOUNT_ZERO,
      MAX_AMOUNT_EXCEEDED, INVALID_PROOF>>

\* the guards request r violates in state s at block blk, by their position
Violations(s, blk, r) ==
    {k \in 1..7 :
        \/ k = 1 /\ s.paused
        \/ k = 2 /\ Len(r.proof) > MAX_PROOF_LENGTH
        \/ k = 3 /\ s.claimed[r.caller]
        \/ k = 4 /\ blk > s.claim_deadline_block
        \/ k = 5 /\ r.amount = 0
        \/ k = 6 /\ r.amount > s.max_claim_amount
        \/ k = 7 /\ ~Eligible(s.merkle_root, r.caller, r.amount, r.proof)}

\* a step in which claim returns from one of its guards (not from the mint)
ClaimRefused == ClaimReturns /\ stack' = stack

\* C22: the seven guards have pairwise different errors; a claim that
\* violates one or more guards is refused with the error of the first
\* violated guard in the order paused, proof too long, already claimed, past
\* deadline, amount zero, amount above cap, proof does not verify; a claim is
\* refused by a guard only if it violates one, and accepted only if it
\* violates none.
C22_GuardOrder ==
    /\ [](Cardinality({GuardOrder[k] : k \in 1..7}) = 7)
    /\ [][/\ ClaimRefused =>
               LET v == Violations(storage, block_number, result')
               IN  /\ v # {}
                   /\ result'.err = GuardOrder[MinOf(v)]
          /\ ClaimAccepted =>
               Violations(storage, block_number, stack'[Len(stack')]) = {}]_vars

\* a claim of amount 0 that violates every guard but the pause and the cap
\* is refused for its proof length; with a short proof it would be refused
\* as already claimed
C22_Witness ==
    /\ IsClaim
    /\ result.err = PROOF_TOO_LONG
    /\ Violations(storage, block_number, result) = {2, 3, 4, 5, 7}
    /\ ClaimError(storage, block_number, result.caller, result.amount, <<>>)
          = ALREADY_CLAIMED

ProposeReturns ==
    result = NoResult /\ result'.op = "propose_merkle_root" /\ result'.err = OK

\* the last accepted proposal is pending and it overwrote a pending proposal
Overwritten == storage.pending_root # Felt(0) /\ superseded.by # "none"

\* C23: the portal has one pending slot: an accepted proposal stores
\* (new_root, block + 14400) in it whatever was pending; after a proposal r1
\* at block b1 was overwritten by a proposal r2 at block b2, execute by the
\* owner fails with 'timelock not expired' and changes nothing at every block
\* < b2 + 14400, also when b1 + 14400 has passed, and at a block >= b2 + 14400
\* it succeeds and installs r2; whenever the active root changes the new root
\* is the root of the last accepted proposal, so an overwritten r1 is never
\* installed.
C23_OverwriteRestartsDelay ==
    [][/\ ProposeReturns =>
             storage' = [storage EXCEPT
                           !.pending_root = result'.root,
                           !.pending_root_block =
                              block_number + ROOT_UPDATE_TIMELOCK_BLOCKS]
       /\ (ExecuteReturns /\ result'.caller = storage.owner /\ Overwritten) =>
             LET r1 == superseded.root
                 b1 == superseded.block
                 r2 == last_proposal.root
                 b2 == last_proposal.block
             IN  /\ b1 <= b2
                 /\ block_number < b2 + ROOT_UPDATE_TIMELOCK_BLOCKS =>
                       (result'.err = TIMELOCK_NOT_READY /\ NothingChanges)
                 /\ block_number >= b2 + ROOT_UPDATE_TIMELOCK_BLOCKS =>
                       /\ result'.err = OK
                       /\ storage'.merkle_root = r2
                       /\ storage'.pending_root = Felt(0)
                       /\ r1 # r2 => storage'.merkle_root # r1
       /\ storage'.merkle_root # storage.merkle_root =>
             (ExecuteReturns /\ storage'.merkle_root = last_proposal.root)]_vars

\* r1 was proposed at block b1 and overwritten by another root at a later
\* block; at a block where b1 + 14400 has passed the owner's execute is
\* refused and r2 is still pending
C23_Witness ==
    /\ result.op = "execute_merkle_root_update"
    /\ result.caller = OWNER
    /\ result.err = TIMELOCK_NOT_READY
    /\ Overwritten
    /\ superseded.root # last_proposal.root
    /\ superseded.block < last_proposal.block
    /\ block_number >= superseded.block + ROOT_UPDATE_TIMELOCK_BLOCKS
    /\ storage.pending_root = last_proposal.root
    /\ storage.merkle_root = Tree2.root

\* the (root, execute_after) pair of the pending update
PendingUpdate == <<storage.pending_root, storage.pending_root_block>>

\* a root has been proposed and not executed yet
UpdatePending == storage.pending_root # Felt(0)

ExecuteSucceeds == ExecuteReturns /\ result'.err = OK

\* C24: while an update is pending, every step other than an accepted
\* proposal and a successful execute (claims accepted, refused, completed or
\* reverted, pause, unpause, refused admin calls, block advances past the
\* execution block) leaves the pending (root, execute_after) pair and the
\* active root unchanged; a claim in that window, also after the delay has
\* elapsed, is accepted only for an entry of the tree under the old root with
\* its proof, and an entry of the pending root that is not one of the old
\* root is refused as an invalid proof.
C24_PollDrivenTimelock ==
    [][UpdatePending =>
          /\ ~(ProposeReturns \/ ExecuteSucceeds) =>
                /\ PendingUpdate' = PendingUpdate
                /\ storage'.merkle_root = storage.merkle_root
          /\ storage.merkle_root = root_origin.root
          /\ ClaimAccepted =>
                LET f == stack'[Len(stack')]
                IN  Eligible(storage.merkle_root, f.caller, f.amount, f.proof)
          /\ (/\ ClaimRefused
              /\ OtherGuardsPass(storage, block_number, result')
              /\ Eligible(storage.pending_root, result'.caller, result'.amount,
                          result'.proof)
              /\ ~Eligible(storage.merkle_root, result'.caller, result'.amount,
                           result'.proof)) =>
                result'.err = INVALID_PROOF]_vars

\* a claim of the old root's entry succeeds after the delay of a pending
\* update has elapsed, the portal having another root still pending under
\* which the account has another amount
C24_Witness ==
    /\ IsClaim
    /\ result.err = OK
    /\ result.caller = USER1
    /\ result.amount = 1000
    /\ storage.merkle_root = Tree2.root
    /\ storage.pending_root = Tree4.root
    /\ block_number >= storage.pending_root_block
    /\ ~Eligible(storage.pending_root, result.caller, result.amount, result.proof)

\* a step in which pause or unpause returns, accepted or refused
PauseCallReturns == result = NoResult /\ result'.op \in {"pause", "unpause"}

ProposeCallReturns == result = NoResult /\ result'.op = "propose_merkle_root"

\* C25: pause and unpause never change the active root or the pending
\* update, and propose and execute never change the pause flag; whether the
\* portal is paused or not, propose fails for a non-owner, fails for the zero
\* root and otherwise succeeds and stores (root, block + 14400), and execute
\* fails for a non-owner, fails with no pending root, fails before the
\* execution block and otherwise succeeds and installs the pending root.
C25_PauseIndependentOfTimelock ==
    [][/\ PauseCallReturns =>
             /\ storage'.merkle_root = storage.merkle_root
             /\ PendingUpdate' = PendingUpdate
       /\ (ProposeCallReturns \/ ExecuteReturns) => storage'.paused = storage.paused
       /\ ProposeCallReturns =>
             /\ result'.err = IF result'.caller # storage.owner THEN NOT_OWNER
                              ELSE IF result'.root = Felt(0) THEN INVALID_ROOT
                              ELSE OK
             /\ result'.err = OK =>
                   PendingUpdate' = <<result'.root,
                                      block_number + ROOT_UPDATE_TIMELOCK_BLOCKS>>
             /\ result'.err # OK => storage' = storage
       /\ ExecuteReturns =>
             /\ result'.err = IF result'.caller # storage.owner THEN NOT_OWNER
                              ELSE IF storage.pending_root = Felt(0) THEN NO_PENDING_ROOT
                              ELSE IF block_number < storage.pending_root_block
                              THEN TIMELOCK_NOT_READY
                              ELSE OK
             /\ result'.err = OK =>
                   /\ storage'.merkle_root = storage.pending_root
                   /\ storage'.pending_root = Felt(0)
             /\ result'.err # OK => storage' = storage]_vars

\* a root update is executed on a paused portal at the very block its delay
\* elapses
C25_Witness ==
    /\ result.op = "execute_merkle_root_update"
    /\ result.err = OK
    /\ storage.paused
    /\ root_origin.kind = "timelock"
    /\ storage.merkle_root = Tree4.root
    /\ block_number = root_origin.proposed_at + ROOT_UPDATE_TIMELOCK_BLOCKS

\* a step in which the token's mint, called by a claim, returns or panics
MintCallEnds == ClaimReturns /\ stack' # stack

\* C26: the mint called by a claim succeeds iff the portal has MINTER_ROLE
\* and supply + amount <= MAX_SUPPLY; when it fails (missing role, or supply
\* cap) the claim fails with the mint's error and the whole transaction is
\* undone: the flag of every account claiming in it is false, and the flags,
\* total_claimed, the token and the event log are those of the start of the
\* transaction;
\* between transactions an account's flag is set iff its mint was executed;
\* a request that satisfies the guards is never refused by the portal,
\* whatever failed before, and succeeds when its mint does.
C26_ClaimAtomicWithMint ==
    /\ [](stack = <<>> =>
             /\ \A u \in Users : storage.claimed[u] <=> mint_calls[u] = 1
             /\ storage.total_claimed = SumAmounts(events)
             /\ \A u \in {USER1, USER2} :
                   erc20.balances[u]
                      = (IF storage.claimed[u] THEN Entitlement2(u) ELSE 0))
    /\ [][/\ (ClaimAccepted /\ stack = <<>>) =>
               saved' = <<[storage |-> storage, erc20 |-> erc20,
                           events |-> events, mint_calls |-> mint_calls]>>
          /\ MintCallEnds =>
               LET f == stack[Len(stack)]
                   role == PORTAL \in erc20.roles[MINTER_ROLE]
                   room == erc20.total_supply + f.amount <= MAX_SUPPLY
               IN  /\ (role /\ room) =>
                         /\ result'.err = OK
                         /\ result'.caller = f.caller
                         /\ storage' = storage
                         /\ storage.claimed[f.caller]
                         /\ erc20'.balances[f.caller]
                              = erc20.balances[f.caller] + f.amount
                   /\ ~(role /\ room) =>
                         /\ result'.err = IF ~role THEN MISSING_ROLE
                                          ELSE EXCEEDS_MAX_SUPPLY
                         /\ result'.caller = stack[1].caller
                         /\ stack' = <<>>
                         /\ \A i \in DOMAIN stack : ~storage'.claimed[stack[i].caller]
                         /\ \A u \in Users : is_claimed(u)' = is_claimed(u)
                         /\ CommittedTotal' = CommittedTotal
                         /\ storage' = saved[1].storage
                         /\ erc20' = saved[1].erc20
                         /\ events' = saved[1].events
                         /\ mint_calls' = saved[1].mint_calls
          /\ ClaimRefused => ~ValidRequest(storage, block_number, result')]_vars

\* after the first account claimed 1000, the second account's claim of 2000
\* is undone because its mint would exceed the supply cap
C26_Witness ==
    /\ IsClaim
    /\ result.err = EXCEEDS_MAX_SUPPLY
    /\ result.caller = USER2
    /\ result.amount = 2000
    /\ stack = <<>>
    /\ storage.claimed[USER1]
    /\ ~storage.claimed[USER2]
    /\ storage.total_claimed = 1000
    /\ Len(events) = 1
    /\ erc20.balances[USER2] = 0
    /\ erc20.total_supply = MAX_SUPPLY - 1500

\* a step in which a Claimed event is emitted
EventEmitted == Len(events') = Len(events) + 1

\* C27: in a successful claim the external mint with (caller, amount) is
\* invoked before the claim event is emitted: the step that emits the event
\* of a claim finds the mint of that claim executed. The portal does not do
\* this: claim emits Claimed after the registry writes and calls the token
\* last, so the event is in the log while the mint has not run.
C27_EventAfterMint ==
    [][EventEmitted =>
          mint_calls'[events'[Len(events')].user] = 1]_vars

\* the mint of an accepted claim is in flight at a block after 0: the
\* registry is written and the event is emitted, with the block of the claim,
\* and the token has not minted yet
C27_Witness ==
    /\ Len(stack) = 1
    /\ block_number > 0
    /\ Len(events) = 2
    /\ events[2] = [user |-> stack[1].caller, amount |-> stack[1].amount,
                    block |-> block_number]
    /\ storage.claimed[stack[1].caller]
    /\ mint_calls[stack[1].caller] = 0
    /\ erc20.balances[stack[1].caller] = 0
    /\ erc20.total_supply = events[1].amount

ProbedDeployed == offchain.op = "get_claimable"

\* C28: get_claimable(account, amount, proof) returns false whenever the
\* proof has more than MAX_PROOF_LENGTH elements, as claim refuses such a
\* proof, so it never reports true for a proof claim refuses as too long.
C28_ProbeRejectsLongProofs ==
    ProbedDeployed =>
        /\ Len(offchain.proof) > MAX_PROOF_LENGTH => offchain.ret = FALSE
        /\ offchain.claim = PROOF_TOO_LONG => offchain.ret = FALSE

\* on a portal whose root commits (USER1, 1000) at depth 33, get_claimable
\* answers true for the 33-element proof that claim refuses as too long
C28_Witness ==
    /\ ProbedDeployed
    /\ offchain.root = DeepRoot
    /\ offchain.user = USER1
    /\ offchain.amount = 1000
    /\ Len(offchain.proof) = MAX_PROOF_LENGTH + 1
    /\ offchain.ret = TRUE
    /\ offchain.claim = PROOF_TOO_LONG

TreeBuilt == offchain.op = "buildMerkleTree"

Last(seq) == seq[Len(seq)]

\* C29: in every iteration of the builder that starts from a level with an
\* odd number of nodes, the parent pushed for the last node n is
\* combine(n, n), the digest of (n, n) and not a combination with zero, and
\* the sibling pushed for it is n itself; a level of k nodes gives
\* ceil(k / 2) parents; for three leaves the root is
\* combine(combine(l0, l1), combine(l2, l2)), for the builder and for the
\* script run on three entries.
C29_OddNodeDuplicated ==
    /\ TreeBuilt =>
          /\ \A t \in DOMAIN offchain.iterations :
                LET level == offchain.iterations[t].level
                    pass == offchain.iterations[t].pass
                    n == Last(level)[1]
                IN  /\ Len(pass.nextLevel) = (Len(level) + 1) \div 2
                    /\ Len(level) % 2 = 1 =>
                          /\ Last(pass.nextLevel) = hashPair(n, n)
                          /\ Last(pass.nextLevel) = PoseidonLite(<<n, n>>)
                          /\ Last(pass.nextLevel) # hashPair(n, Felt(0))
                          /\ Last(pass.nextProofs)[1] = n
          /\ Len(offchain.leaves) = 3 =>
                LET l == offchain.leaves
                IN  offchain.output.root
                      = hashPair(hashPair(l[1], l[2]), hashPair(l[3], l[3]))
    /\ (ScriptRan /\ Len(offchain.claims) = 3) =>
          LET l == [i \in 1..3 |-> computeLeaf(offchain.claims[i].address,
                                               offchain.claims[i].amount)]
          IN  offchain.output.root
                = ToHex(hashPair(hashPair(l[1], l[2]), hashPair(l[3], l[3])))

\* the builder run on six leaves: its second level has three nodes and the
\* third is paired with itself
C29_Witness ==
    /\ TreeBuilt
    /\ Len(offchain.leaves) = 6
    /\ Len(offchain.iterations) = 3
    /\ Len(offchain.iterations[2].level) = 3
    /\ offchain.iterations[2].level[3][1]
          = hashPair(offchain.leaves[5], offchain.leaves[6])
    /\ offchain.iterations[2].pass.nextLevel[2]
          = hashPair(hashPair(offchain.leaves[5], offchain.leaves[6]),
                     hashPair(offchain.leaves[5], offchain.leaves[6]))
    /\ offchain.output.root = offchain.iterations[3].pass.nextLevel[1]

IsDigest(node) == Len(node) = 2 /\ node[1] = "poseidon-lite"

\* C30: the builder and the script fail on zero entries ('Cannot build tree
\* with 0 leaves': no root and no proofs); on every list of one or more
\* entries they succeed, the root is one digest, and the script reports every
\* entry, in order, with one proof (a list of hex strings) each.
C30_EmptyTreeIsError ==
    /\ TreeBuilt =>
          /\ Len(offchain.leaves) = 0 =>
                /\ offchain.output.error = "Cannot build tree with 0 leaves"
                /\ offchain.output.proofs = <<>>
          /\ Len(offchain.leaves) >= 1 =>
                /\ offchain.output.error = ""
                /\ IsDigest(offchain.output.root)
    /\ ScriptRan =>
          /\ Len(offchain.claims) = 0 =>
                /\ offchain.output.error = "Cannot build tree with 0 leaves"
                /\ offchain.output.claims = <<>>
          /\ Len(offchain.claims) >= 1 =>
                /\ offchain.output.error = ""
                /\ IsDigest(FromHex(offchain.output.root))
                /\ Len(offchain.output.claims) = Len(offchain.claims)
                /\ \A i \in DOMAIN offchain.claims :
                      /\ offchain.output.claims[i].address = offchain.claims[i].address
                      /\ offchain.output.claims[i].amount = offchain.claims[i].amount
                      /\ \A k \in DOMAIN offchain.output.claims[i].proof :
                            offchain.output.claims[i].proof[k][1] = "0x"

\* the script was run on the empty snapshot and failed
C30_Witness ==
    /\ ScriptRan
    /\ offchain.claims = <<>>
    /\ offchain.output.error = "Cannot build tree with 0 leaves"
    /\ offchain.output.claims = <<>>

\* C31: the claim deadline, the per-claim cap and the token address keep the
\* values the constructor wrote through every claim, proposal, execute, pause
\* and unpause; of the configuration fields only the pause flag (by an
\* accepted pause or unpause), the active root (by an accepted execute) and
\* the pending slot (by an accepted proposal or execute) ever change.
C31_ConfigFixedAtConstruction ==
    [][/\ storage'.claim_deadline_block = storage.claim_deadline_block
       /\ storage'.max_claim_amount = storage.max_claim_amount
       /\ storage'.token = storage.token
       /\ storage'.paused # storage.paused =>
             result'.op \in {"pause", "unpause"} /\ result'.err = OK
       /\ storage'.merkle_root # storage.merkle_root =>
             result'.op = "execute_merkle_root_update" /\ result'.err = OK
       /\ PendingUpdate' # PendingUpdate =>
             /\ result'.op \in {"propose_merkle_root", "execute_merkle_root_update"}
             /\ result'.err = OK]_vars

\* a new root is installed on a paused portal after claims were made, and the
\* deadline, the cap and the token are those of the constructor
C31_Witness ==
    /\ result.op = "execute_merkle_root_update"
    /\ result.err = OK
    /\ storage.paused
    /\ storage.merkle_root = Tree4.root
    /\ storage.total_claimed = 3000
    /\ storage.claim_deadline_block = ROOT_UPDATE_TIMELOCK_BLOCKS
    /\ storage.max_claim_amount = 2000
    /\ storage.token = TOKEN

DeployAttempted == offchain.op = "constructor"

\* C32: the active root is never zero: a deployment with root 0 fails (with
\* 'Portal: invalid merkle root' when owner and token are given), every
\* deployment that succeeds has a non-zero root, propose_merkle_root(0) by
\* the owner fails with 'Portal: invalid root' and leaves the pending update
\* as it was, merkle_root is non-zero in every reachable state, and the
\* pending slot is zero exactly when no proposal is outstanding.
C32_RootNeverNull ==
    /\ [](/\ storage.merkle_root # Felt(0)
          /\ storage.pending_root = Felt(0) <=> ~ProposalOutstanding
          /\ DeployAttempted =>
                /\ offchain.merkle_root = Felt(0) =>
                      offchain.error = "Portal: invalid merkle root"
                /\ offchain.error = "" => offchain.merkle_root # Felt(0))
    /\ [][(ProposeCallReturns /\ result'.root = Felt(0)) =>
             /\ result'.err = IF result'.caller = storage.owner THEN INVALID_ROOT
                              ELSE NOT_OWNER
             /\ storage' = storage]_vars

\* the owner proposes the zero root while an update is pending and is
\* refused, and a deployment with the zero root has failed
C32_Witness ==
    /\ result.op = "propose_merkle_root"
    /\ result.root = Felt(0)
    /\ result.err = INVALID_ROOT
    /\ storage.pending_root = Tree4.root
    /\ storage.pending_root_block = block_number + 1
    /\ DeployAttempted
    /\ offchain.merkle_root = Felt(0)
    /\ offchain.claim_deadline_block > offchain.block
    /\ offchain.error = "Portal: invalid merkle root"

SnapshotCommitted == offchain.op = "commit"

\* the node with every digest of the script read as a digest of the contract
RECURSIVE AsCairo(_)
AsCairo(node) ==
    IF Len(node) = 1 THEN node
    ELSE Poseidon([i \in DOMAIN node[2] |-> AsCairo(node[2][i])])

\* C33: for the same two-entry or four-entry list the root produced by
\* generate_merkle.ts equals the root of the Cairo reference tree
\* (two_leaf_tree, four_leaf_tree), and the portal deployed with the script's
\* root accepts the entry with the reference proof.
C33_BuilderMatchesVerifier ==
    SnapshotCommitted =>
        /\ FromHex(offchain.script.root) = offchain.cairo.root
        /\ offchain.claim = OK

\* the two-entry snapshot committed both ways: the two trees have the same
\* shape (leaf of account, low, high; parent of the sorted pair) but the
\* script's root is a poseidon-lite digest, it is not the reference root, and
\* the portal deployed with it refuses the entry
C33_Witness ==
    /\ SnapshotCommitted
    /\ offchain.snapshot = Snapshot2
    /\ offchain.cairo.root = Tree2.root
    /\ offchain.script.error = ""
    /\ FromHex(offchain.script.root)
          = hashPair(computeLeaf(USER1, 1000), computeLeaf(USER2, 2000))
    /\ AsCairo(FromHex(offchain.script.root)) = offchain.cairo.root
    /\ FromHex(offchain.script.root) # offchain.cairo.root
    /\ offchain.claim = INVALID_PROOF

CalldataBuilt == offchain.op = "handleClaim"

\* C34: for every amount below 2^256 the limbs sent are low = amount mod
\* 2^128 and high = floor(amount / 2^128), both below 2^128, and low + high *
\* 2^128 is the amount again; the calldata of a claim is low, high, the
\* number of proof elements and then the proof elements in order. The script
\* hashes the same two limbs into the leaf.
C34_LimbSplit ==
    /\ CalldataBuilt =>
          LET amount == ParseDigits(offchain.claimAmount, 10)
              low == ParseDigits(SubSeq(offchain.calldata[1], 3,
                                        Len(offchain.calldata[1])), 16)
              high == ParseDigits(SubSeq(offchain.calldata[2], 3,
                                         Len(offchain.calldata[2])), 16)
          IN  /\ amount \in 0..U256Max
              /\ low = amount % LimbBase
              /\ high = amount \div LimbBase
              /\ low < LimbBase /\ high < LimbBase
              /\ low + high * LimbBase = amount
              /\ SubSeq(offchain.calldata[1], 1, 2) = <<"0", "x">>
              /\ SubSeq(offchain.calldata[2], 1, 2) = <<"0", "x">>
              /\ Len(offchain.calldata) = 3 + Len(offchain.claimProof)
              /\ ParseDigits(offchain.calldata[3], 10) = Len(offchain.claimProof)
              /\ \A k \in DOMAIN offchain.claimProof :
                    offchain.calldata[3 + k] = offchain.claimProof[k]
    /\ (ScriptRan /\ Len(offchain.claims) = 1) =>
          LET leaf == FromHex(offchain.output.root)
              amount == offchain.claims[1].amount
          IN  /\ leaf[2][2] = Felt(amount % LimbBase)
              /\ leaf[2][3] = Felt(amount \div LimbBase)
              /\ leaf[2][2][1] + leaf[2][3][1] * LimbBase = amount

\* the calldata of a claim of the largest amount with a two-element proof:
\* both limbs are the largest limb
C34_Witness ==
    /\ CalldataBuilt
    /\ ParseDigits(offchain.claimAmount, 10) = U256Max
    /\ offchain.calldata[1] = <<"0", "x">> \o toString(LimbBase - 1, 16)
    /\ offchain.calldata[2] = offchain.calldata[1]
    /\ offchain.calldata[3] = <<"2">>
    /\ Len(offchain.calldata) = 5
    /\ offchain.calldata[5] = <<"0", "x", "1", "f", "0", "0">>

\* the page has handed a claim to the connected Starknet account
ClaimSent == home.sent # Null

\* the leaf the script committed for the first entry of the snapshot
CommittedLeaf ==
    computeLeaf(BigInt(HomeSnapshot[1].address), BigInt(HomeSnapshot[1].amount))

\* C35: the allocation the page finds by the connected ETH address and submits
\* from the connected Starknet account passes the portal's proof check
\* whichever Starknet account is connected: the leaf the portal recomputes
\* from (caller, amount) is the leaf the builder committed for the entry.
C35_AnyStarknetAccountAccepted ==
    ClaimSent =>
        /\ compute_leaf(home.sent[1].from, BigInt(HomeSnapshot[1].amount))
              = AsCairo(CommittedLeaf)
        /\ PortalAnswer(home.sent[1]) = OK

\* the entry of L1 address 0x7a is found for the wallet address 0x7A and,
\* the authorization signed, claimed from Starknet account 0x10 while 0x7A is
\* connected and no lookup is in flight: the builder committed the leaf of (0x7a, 1000), the portal
\* recomputes the leaf of (0x10, 1000), and the claim is refused
C35_Witness ==
    /\ ClaimSent
    /\ home.inflight = <<>>
    /\ home.ethAddress = Some(<<"0", "x", "7", "A">>)
    /\ home.starknetAddress = Some(USER1)
    /\ home.isEligible = Some(TRUE)
    /\ home.signature # Null
    /\ home.migrationStep = 3
    /\ home.sent = Some([from |-> USER1,
                         calldata |-> <<(<<"0", "x", "3", "e", "8">>),
                                        (<<"0", "x", "0">>), (<<"0">>)>>])
    /\ AsCairo(CommittedLeaf) = compute_leaf(122, 1000)
    /\ AsCairo(CommittedLeaf) # compute_leaf(USER1, 1000)
    /\ PortalAnswer(home.sent[1]) = INVALID_PROOF

\* the active root was installed by execute_merkle_root_update
Rotated == root_origin.kind = "timelock"

\* the proof of an entry of a root the portal was constructed with
UnderOldRoot(caller, amount, proof) ==
    \E old \in CtorRoots : Eligible(old, caller, amount, proof)

\* C36 (as stated): after a root rotation every claim of an account that has
\* claimed fails with 'already claimed', and every claim with a proof that
\* was valid only under the old root fails with 'invalid merkle proof'.
C36_RotationErrors ==
    [][(ClaimRefused /\ Rotated) =>
          LET r == result' IN
          /\ storage.claimed[r.caller] => r.err = ALREADY_CLAIMED
          /\ (/\ ~storage.claimed[r.caller]
              /\ UnderOldRoot(r.caller, r.amount, r.proof)
              /\ ~Eligible(storage.merkle_root, r.caller, r.amount, r.proof)) =>
                r.err = INVALID_PROOF]_vars

\* C36 (amended): a successful execute leaves every claimed flag and the
\* total as they were; after a rotation no claim of a claimed account is
\* accepted, even with its entry of the new root: it is refused with the
\* paused error while the portal is paused, with 'proof exceeds max depth'
\* for a proof of more than MAX_PROOF_LENGTH elements and with 'already
\* claimed' otherwise; a claim is accepted only for an unclaimed account with
\* an entry of the new root and that entry's proof, and a request that was
\* valid only under the old root is refused, with 'invalid merkle proof'
\* when the other guards pass.
C36_RecordsSurviveRotation ==
    [][/\ ExecuteSucceeds =>
             /\ storage'.claimed = storage.claimed
             /\ storage'.total_claimed = storage.total_claimed
             /\ events' = events
       /\ (ClaimAccepted /\ Rotated) =>
             LET f == stack'[Len(stack')]
             IN  /\ ~storage.claimed[f.caller]
                 /\ Eligible(storage.merkle_root, f.caller, f.amount, f.proof)
       /\ (ClaimRefused /\ Rotated) =>
             LET r == result' IN
             /\ storage.claimed[r.caller] =>
                   r.err = IF storage.paused THEN PAUSED
                           ELSE IF Len(r.proof) > MAX_PROOF_LENGTH THEN PROOF_TOO_LONG
                           ELSE ALREADY_CLAIMED
             /\ (/\ UnderOldRoot(r.caller, r.amount, r.proof)
                 /\ ~Eligible(storage.merkle_root, r.caller, r.amount, r.proof)) =>
                   /\ r.err # OK
                   /\ OtherGuardsPass(storage, block_number, r) =>
                         r.err = INVALID_PROOF]_vars

\* the first account claimed 1000 under the constructor's root; after the
\* rotation it claims its new entry (2000) with that entry's proof and is
\* refused, while the third account has claimed its entry of the new root
C36_Witness ==
    /\ Rotated
    /\ IsClaim
    /\ result.caller = USER1
    /\ result.amount = 2000
    /\ result.proof = Tree4.proofs[1]
    /\ Eligible(storage.merkle_root, USER1, 2000, result.proof)
    /\ result.err = ALREADY_CLAIMED
    /\ Len(events) = 2
    /\ events[1].user = USER1 /\ events[1].amount = 1000
    /\ events[2].user = USER3 /\ events[2].block >= root_origin.executed_at
    /\ mint_calls[USER3] = 1
    /\ storage.total_claimed = 2000

\* C37: whenever a claim is accepted, get_claimable(caller, amount, proof) is
\* true in the state the claim was entered in (for a transaction's own claim,
\* the committed state before the transaction) and false from the state its
\* effects are written in; when the claim returns success the view is false.
C37_ClaimableBeforeNotAfter ==
    [][/\ ClaimAccepted =>
             LET f == stack'[Len(stack')]
             IN  /\ get_claimable(storage, f.caller, f.amount, f.proof)
                 /\ ~get_claimable(storage', f.caller, f.amount, f.proof)
       /\ (ClaimReturns /\ result'.err = OK) =>
             LET r == result'
             IN  /\ ~get_claimable(storage', r.caller, r.amount, r.proof)
                 /\ r.depth = 1 =>
                       get_claimable(saved[1].storage, r.caller, r.amount, r.proof)]_vars

\* the second account's claim has just returned success after the first
\* account's: the view is false for its request, and is still true for the
\* same request on the storage without its flag
C37_Witness ==
    /\ IsClaim
    /\ result.err = OK
    /\ result.depth = 1
    /\ result.caller = USER2
    /\ storage.claimed[USER1]
    /\ ~get_claimable(storage, result.caller, result.amount, result.proof)
    /\ get_claimable([storage EXCEPT !.claimed[USER2] = FALSE],
                     result.caller, result.amount, result.proof)
    /\ erc20.balances[USER2] = result.amount

\* C38: a successful claim increases the caller's token balance by exactly
\* the claimed amount and no other balance; with the portal as the only
\* caller of mint, total_supply equals total_claimed whenever no claim is in
\* flight, and while claims are in flight total_claimed is ahead of the
\* supply by exactly the amounts whose mint has not run yet.
C38_MintedEqualsClaimed ==
    /\ [](/\ storage.total_claimed = erc20.total_supply + SumAmounts(stack)
          /\ stack = <<>> => erc20.total_supply = storage.total_claimed
          /\ erc20.total_supply = SumBalances(erc20.balances, Users))
    /\ [][(ClaimReturns /\ result'.err = OK) =>
             LET r == result'
             IN  /\ erc20'.balances[r.caller] = erc20.balances[r.caller] + r.amount
                 /\ \A u \in Users \ {r.caller} :
                       erc20'.balances[u] = erc20.balances[u]
                 /\ erc20'.total_supply = erc20.total_supply + r.amount
                 /\ r.depth = 1 =>
                       erc20'.balances[r.caller]
                          = saved[1].erc20.balances[r.caller] + r.amount]_vars

\* both accounts of the two-account tree have claimed and no claim is in
\* flight: balances 1000 and 2000, supply and total claimed 3000
C38_Witness ==
    /\ stack = <<>>
    /\ IsClaim
    /\ result.err = OK
    /\ erc20.balances[USER1] = 1000
    /\ erc20.balances[USER2] = 2000
    /\ erc20.balances[USER3] = 0
    /\ erc20.total_supply = 3000
    /\ storage.total_claimed = 3000
    /\ PORTAL \in erc20.roles[MINTER_ROLE]

\* no fetchAllocation call is in flight
Idle == home.inflight = <<>>

\* the entries of the published file listed for an address
EntriesOf(address) ==
    {i \in DOMAIN PublishedFile.claims :
        SameAddress(PublishedFile.claims[i].address, address)}

\* C39: once no fetchAllocation call is in flight, the page shows the state
\* of the currently connected ETH address: with no ETH wallet connected
\* isEligible and claimAmount are null; with a wallet connected, isEligible
\* is not null, and when it is true claimAmount and claimProof are the amount
\* and proof of the file's entry for that address.
C39_LateLookupNeverOverwrites ==
    Idle =>
        /\ home.ethAddress = Null =>
              home.isEligible = Null /\ home.claimAmount = Null
        /\ home.ethAddress # Null =>
              /\ home.isEligible # Null
              /\ home.isEligible = Some(TRUE) =>
                    \E i \in EntriesOf(home.ethAddress[1]) :
                        /\ home.claimAmount = Some(PublishedFile.claims[i].amount)
                        /\ home.claimProof = PublishedFile.claims[i].proof

\* the wallet has disconnected while the lookup of a listed address was in
\* flight and the lookup has settled since: no wallet is connected, no call
\* is in flight, and the page shows the allocation of the address that left
C39_Witness ==
    /\ Idle
    /\ home.ethAddress = Null
    /\ home.isEligible = Some(TRUE)
    /\ home.claimAmount = Some(PublishedFile.claims[1].amount)
    /\ home.claimProof = PublishedFile.claims[1].proof
    /\ ~home.loadingAllocation

====
